---- MODULE Spec2Model ----
(***************************************************************************)
(* The translation-memory cache of tlumok: the generic expiring key-value  *)
(* store CacheFor<KV> (src/key_value_cache/cache_service.rs) and the       *)
(* DictionaryService built on it (src/main.rs, mod translation_service).   *)
(*                                                                         *)
(* Spec         one client calling the operations of one CacheFor handle,  *)
(*              one call after the other, while the wall clock advances.   *)
(* SpecRace     two tasks inserting through one handle at the same time.   *)
(* SpecService  two tasks calling the operations of one DictionaryService. *)
(* SpecDedup    the merge of get_global_suggestions on its own.            *)
(* SpecAddress  the derivation of a store address on its own.              *)
(* SpecSuggest  the suggestions built from a stored list, on their own.    *)
(* SpecFanOut   one get_global_suggestions over more projects than its     *)
(*              buffer holds.                                              *)
(* SpecExpired  the expiration predicate on its own.                       *)
(* SpecLock     two tasks at the RwLock of one CacheFor handle.            *)
(* SpecGuard    SpecService's calls with the guard of the service, every   *)
(*              task taking the steps it can take.                         *)
(* SpecEvict    a get and an insert on one key of one handle, at the same  *)
(*              time.                                                      *)
(* SpecReplace  one client on a handle whose first key has expired.        *)
(* SpecClock    one task calling the DictionaryService while the clock     *)
(*              advances.                                                  *)
(* SpecPanel    the window of the application (src/ui.rs): the focused     *)
(*              segment and the suggestion panel.                          *)
(* SpecValidated  TranslationWorkspace::validated on its own.              *)
(***************************************************************************)
EXTENDS Integers, Sequences, FiniteSets, TLC

(***************************************************************************)
(* Bounds                                                                  *)
(***************************************************************************)
MaxTime == 3
Dur == 2
MaxLen == 2

KeySeq == <<"cat", "dog">>
Keys == {KeySeq[i] : i \in 1..Len(KeySeq)}
Vals == {"kot", "pies"}
Clients == {"c1"}
Racers == {"c1", "c2"}

None == <<>>
Some(v) == <<v>>

SeqsUpTo(S, n) == UNION {[1..m -> S] : m \in 0..n}
Range(s) == {s[i] : i \in 1..Len(s)}

(***************************************************************************)
(* ExpiresAfter                                                            *)
(***************************************************************************)
Never == [tag |-> "Never", duration |-> 0]
After(d) == [tag |-> "After", duration |-> d]

\* Variants of expired: the entry's last instant counted as expired; the
\* duration left out of the sum.
expired_at_boundary(policy, created, t) ==
    IF policy.tag = "Never" THEN FALSE ELSE created + policy.duration <= t

expired_no_duration(policy, created, t) ==
    IF policy.tag = "Never" THEN FALSE ELSE created < t

expired(policy, created, t) ==
    IF policy.tag = "Never" THEN FALSE ELSE created + policy.duration < t

\* The largest AppTime (chrono's NaiveDateTime), and the longest duration
\* chrono::Duration holds: both beyond every sum the stores below compute.
DateTimeMax == MaxTime + Dur

ChronoDurationMax == DateTimeMax + 1

\* chrono::Duration::from_std: fails for a duration chrono cannot hold.
from_std(duration) == IF duration <= ChronoDurationMax THEN Some(duration) ELSE None

\* What a call of expired gives: Ok(bool), the error of the conversion, or
\* the panic of a sum that leaves the range of AppTime.
Ok(b) == <<"Ok", b>>

BadExpiryValue == <<"Err", "bad expiry value">>

Overflowed == <<"panic", "NaiveDateTime + Duration overflowed">>

expired_result(policy, created, t) ==
    IF policy.tag = "Never" THEN Ok(FALSE)
    ELSE IF from_std(policy.duration) = None THEN BadExpiryValue
    ELSE IF created + from_std(policy.duration)[1] > DateTimeMax THEN Overflowed
    ELSE Ok(expired(policy, created, t))

VARIABLES
    now,            \* crate::now()
    expires_after,  \* CacheFor.expires_after
    cache_db,       \* CacheFor.cache_db: the sled tree, key -> CacheEntry
    db_held,        \* CacheFor.cache_db, the RwLock: the guards granted
    db_queue,       \* CacheFor.cache_db, the RwLock: the requests waiting, oldest first
    pc,             \* per client: the step its call is at
    call,           \* per client: the call in progress and its arguments
    idx,            \* per client: position of a batch call in its input
    acc,            \* per client: results collected so far by a batch call
    ret,            \* per client: what the last call returned
    first_insert,   \* history: per key, the insert that created its entry
    later_insert,   \* history: per key, a later insert offered another value
    evicted,        \* history: keys a get removed as expired, not inserted since
    stale,          \* history: keys whose expired entry a get failed to remove
    prev_update,    \* history: the update call this call repeats, and the tree after it
    disk,           \* the sled trees on disk, by the path they were opened at
    handles,        \* the open sled::Db handles: who holds which path
    guard_held,     \* DictionaryService.0: the guards granted
    guard_queue,    \* DictionaryService.0: the requests waiting, oldest first
    job,            \* per task: the service call in progress and its locals
    done,           \* per task: what its last service call returned
    saved,          \* history: per project and text, the translations saved Ok
    saves,          \* history: the number of save_translation calls made
    open_conflict,  \* history: an open met a live handle to the same path
    arg,            \* the input of a function applied on its own
    result,         \* what the function returned for it
    app_mode,       \* TlumokState.app_mode
    commands,       \* the tasks of Command::perform whose message is yet to come
    shown           \* history: per kind, the index its list was received for

store_vars == <<now, expires_after, cache_db, db_held, db_queue, pc, call, idx, acc, ret,
                first_insert, later_insert, evicted, stale, prev_update>>

service_vars == <<disk, handles, guard_held, guard_queue, job, done,
                  saved, saves, open_conflict>>

pure_vars == <<arg, result>>

ui_vars == <<app_mode, commands, shown>>

vars == <<store_vars, service_vars, pure_vars, ui_vars>>

(***************************************************************************)
(* The sled tree behind one handle, as the three accesses the store makes. *)
(***************************************************************************)
IO == {"ok", "err"}

DbGet(db, key) == IF key \in DOMAIN db THEN Some(db[key]) ELSE None

DbInsert(db, key, entry) ==
    [k \in DOMAIN db \cup {key} |-> IF k = key THEN entry ELSE db[k]]

\* Variants of DbRemove: the delete does not reach the tree; the delete
\* empties the tree.
DbRemoveNothing(db, key) == db

DbRemoveAll(db, key) == << >>

DbRemove(db, key) == [k \in DOMAIN db \ {key} |-> db[k]]

\* sled iterates in the byte order of the serialized keys.
DbIter(db) ==
    LET present == SelectSeq(KeySeq, LAMBDA k : k \in DOMAIN db)
    IN  [i \in 1..Len(present) |-> <<present[i], db[present[i]]>>]

CacheEntry(value, created) == [value |-> value, created |-> created]

\* Variant of DbGetResult: an entry is returned whatever its age.
DbGetResultAnyAge(policy, entry, t) ==
    IF entry = None THEN "NotFound" ELSE "Return"

\* get: what to do with the entry read.
DbGetResult(policy, entry, t) ==
    IF entry = None THEN "NotFound"
    ELSE IF expired(policy, entry[1].created, t) THEN "Remove"
    ELSE "Return"

\* get_all: the entries of the scan that pass its filter, as (key, value).
GetAllFound(policy, scan, t) ==
    LET kept == SelectSeq(scan, LAMBDA kv : expired(policy, kv[2].created, t))
    IN  [i \in 1..Len(kept) |-> <<kept[i][1], kept[i][2].value>>]

\* get_many: the fold of the search results into the three lists.
SearchResult(key, value) == [key |-> key, value |-> value]

\* Variant of GetManyResults: the two key lists change places.
GetManyResultsSwapped(found, not_found_keys, found_keys) ==
    [found |-> found, not_found_keys |-> found_keys, found_keys |-> not_found_keys]

GetManyResults(found, not_found_keys, found_keys) ==
    [found |-> found, not_found_keys |-> not_found_keys, found_keys |-> found_keys]

\* Variant of Fold: every key asked for is also pushed to not_found_keys.
FoldAllNotFound(results) ==
    LET hits == SelectSeq(results, LAMBDA r : r.value # None)
    IN  GetManyResults([i \in 1..Len(hits) |-> <<hits[i].key, hits[i].value[1]>>],
                       [i \in 1..Len(results) |-> results[i].key],
                       [i \in 1..Len(hits) |-> hits[i].key])

Fold(results) ==
    LET hits == SelectSeq(results, LAMBDA r : r.value # None)
        misses == SelectSeq(results, LAMBDA r : r.value = None)
    IN  GetManyResults([i \in 1..Len(hits) |-> <<hits[i].key, hits[i].value[1]>>],
                       [i \in 1..Len(misses) |-> misses[i].key],
                       [i \in 1..Len(hits) |-> hits[i].key])

NoResults == GetManyResults(<<>>, <<>>, <<>>)

(***************************************************************************)
(* Calls and their results                                                 *)
(***************************************************************************)
Call(op, key, val, keys, entries) ==
    [op |-> op, key |-> key, val |-> val, keys |-> keys, entries |-> entries]

NoCall == Call("none", "", "", <<>>, <<>>)

\* What a call returned: its status, the Option of get, the lists of get_many
\* and get_all; with it, the call, the time of the return and (history) the
\* answers the gets of a get_many gave.
Returned(c, status, value, many, answers, at) ==
    [op |-> c.op, key |-> c.key, val |-> c.val, keys |-> c.keys,
     entries |-> c.entries, status |-> status, value |-> value,
     found |-> many.found, not_found_keys |-> many.not_found_keys,
     found_keys |-> many.found_keys, answers |-> answers, at |-> at]

NoRet == Returned(NoCall, "none", None, NoResults, <<>>, 0)

\* Variant of CurKey: a batch is walked from its last element to its first.
CurKeyFromEnd(c) ==
    CASE call[c].op = "get_many" -> call[c].keys[Len(call[c].keys) + 1 - idx[c]]
      [] call[c].op = "update" -> call[c].entries[Len(call[c].entries) + 1 - idx[c]][1]
      [] OTHER -> call[c].key

\* The element a call is working on: its own key, or the current one of a batch.
CurKey(c) ==
    CASE call[c].op = "get_many" -> call[c].keys[idx[c]]
      [] call[c].op = "update" -> call[c].entries[idx[c]][1]
      [] OTHER -> call[c].key

CurVal(c) ==
    IF call[c].op = "update" THEN call[c].entries[idx[c]][2] ELSE call[c].val

\* History: an entry created at t0 has not outlived the policy at t.
LiveAt(t0, t) ==
    expires_after.tag = "Never" \/ t <= t0 + expires_after.duration

Values(db) == [k \in DOMAIN db |-> db[k].value]

(***************************************************************************)
(* Initial state of the store: freshly created, nobody calling.            *)
(***************************************************************************)
\* The state of a freshly opened, empty store under a given policy.
StoreInit(policy) ==
    /\ now = 0
    /\ expires_after = policy
    /\ cache_db = << >>
    /\ db_held = {}
    /\ db_queue = <<>>
    /\ pc = [c \in Racers |-> "idle"]
    /\ call = [c \in Racers |-> NoCall]
    /\ idx = [c \in Racers |-> 1]
    /\ acc = [c \in Racers |-> <<>>]
    /\ ret = [c \in Racers |-> NoRet]
    /\ first_insert = [k \in Keys |-> None]
    /\ later_insert = [k \in Keys |-> FALSE]
    /\ evicted = {}
    /\ stale = {}
    /\ prev_update = None

(***************************************************************************)
(* Control: starting a call, moving inside it, returning from it.          *)
(***************************************************************************)
Begin(c, newcall, label) ==
    /\ pc[c] = "idle"
    /\ pc' = [pc EXCEPT ![c] = label]
    /\ call' = [call EXCEPT ![c] = newcall]
    /\ idx' = [idx EXCEPT ![c] = 1]
    /\ acc' = [acc EXCEPT ![c] = <<>>]
    /\ ret' = [ret EXCEPT ![c] = NoRet]
    /\ prev_update' =
          IF /\ ret[c].op = "update" /\ ret[c].status = "Ok"
             /\ newcall.op = "update" /\ newcall.entries = ret[c].entries
          THEN Some([entries |-> ret[c].entries, post |-> cache_db])
          ELSE None

Goto(c, label, i, a) ==
    /\ pc' = [pc EXCEPT ![c] = label]
    /\ idx' = [idx EXCEPT ![c] = i]
    /\ acc' = [acc EXCEPT ![c] = a]
    /\ UNCHANGED <<call, ret>>

Return(c, status, value, many) ==
    /\ pc' = [pc EXCEPT ![c] = "idle"]
    /\ ret' = [ret EXCEPT ![c] =
                   Returned(call[c], status, value, many,
                            IF call[c].op = "get_many" /\ status = "Ok"
                            THEN acc[c] ELSE <<>>, now)]
    /\ call' = [call EXCEPT ![c] = NoCall]
    /\ idx' = [idx EXCEPT ![c] = 1]
    /\ acc' = [acc EXCEPT ![c] = <<>>]

\* Variant of Fail: a batch that fails returns what it has collected so far.
FailPartial(c) == Return(c, "Err", None, Fold(acc[c]))

\* An error of a store access ends the whole call: every caller passes it on.
Fail(c) == Return(c, "Err", None, NoResults)

hist == <<first_insert, later_insert, evicted, stale, prev_update>>

\* A batch call moves to its next element, or to its last step after the last one.
InputLen(c) ==
    IF call[c].op = "get_many" THEN Len(call[c].keys) ELSE Len(call[c].entries)

NextElement(c, a) ==
    IF idx[c] < InputLen(c)
    THEN Goto(c, "get_internal", idx[c] + 1, a)
    ELSE Goto(c, IF call[c].op = "get_many" THEN "fold" ELSE "updated", idx[c], a)

\* insert returned Ok for the current element (the write, or the no-op).
Inserted(c) ==
    /\ LET k == CurKey(c)
           kept == first_insert[k] # None /\ LiveAt(first_insert[k][1].at, now)
       IN  /\ first_insert' =
                 IF kept THEN first_insert
                 ELSE [first_insert EXCEPT ![k] = Some([value |-> CurVal(c), at |-> now])]
           /\ later_insert' =
                 IF kept
                 THEN [later_insert EXCEPT
                          ![k] = @ \/ CurVal(c) # first_insert[k][1].value]
                 ELSE [later_insert EXCEPT ![k] = FALSE]
    /\ IF call[c].op = "insert"
       THEN Return(c, "Ok", None, NoResults)
       ELSE NextElement(c, acc[c])

\* Variant of AlreadyExists: insert always writes.
AlreadyExistsNever(value) == FALSE

\* insert: the key already has a value, nothing is written.
AlreadyExists(value) == value # None

\* get has its answer for the current element: back in the caller of get.
GotValue(c, value) ==
    CASE call[c].op = "get" ->
            /\ Return(c, "Ok", value, NoResults)
            /\ UNCHANGED <<first_insert, later_insert>>
      [] call[c].op = "get_many" ->
            /\ NextElement(c, Append(acc[c], SearchResult(CurKey(c), value)))
            /\ UNCHANGED <<first_insert, later_insert>>
      [] OTHER ->
            IF AlreadyExists(value)
            THEN Inserted(c)
            ELSE /\ Goto(c, "insert_internal", idx[c], acc[c])
                 /\ UNCHANGED <<first_insert, later_insert>>

(***************************************************************************)
(* The calls of CacheFor                                                   *)
(***************************************************************************)
insert(c, key, value) ==
    /\ Begin(c, Call("insert", key, value, <<>>, <<>>), "get_internal")
    /\ UNCHANGED <<now, expires_after, cache_db, first_insert, later_insert, evicted, stale>>
    /\ UNCHANGED <<db_held, db_queue, service_vars, pure_vars, ui_vars>>

get(c, key) ==
    /\ Begin(c, Call("get", key, "", <<>>, <<>>), "get_internal")
    /\ UNCHANGED <<now, expires_after, cache_db, first_insert, later_insert, evicted, stale>>
    /\ UNCHANGED <<db_held, db_queue, service_vars, pure_vars, ui_vars>>

remove(c, key) ==
    /\ Begin(c, Call("remove", key, "", <<>>, <<>>), "remove_internal")
    /\ UNCHANGED <<now, expires_after, cache_db, first_insert, later_insert, evicted, stale>>
    /\ UNCHANGED <<db_held, db_queue, service_vars, pure_vars, ui_vars>>

get_many(c, keys) ==
    /\ Begin(c, Call("get_many", "", "", keys, <<>>),
             IF keys = <<>> THEN "fold" ELSE "get_internal")
    /\ UNCHANGED <<now, expires_after, cache_db, first_insert, later_insert, evicted, stale>>
    /\ UNCHANGED <<db_held, db_queue, service_vars, pure_vars, ui_vars>>

update(c, entries) ==
    /\ Begin(c, Call("update", "", "", <<>>, entries),
             IF entries = <<>> THEN "updated" ELSE "get_internal")
    /\ UNCHANGED <<now, expires_after, cache_db, first_insert, later_insert, evicted, stale>>
    /\ UNCHANGED <<db_held, db_queue, service_vars, pure_vars, ui_vars>>

get_all(c) ==
    /\ Begin(c, Call("get_all", "", "", <<>>, <<>>), "scan")
    /\ UNCHANGED <<now, expires_after, cache_db, first_insert, later_insert, evicted, stale>>
    /\ UNCHANGED <<db_held, db_queue, service_vars, pure_vars, ui_vars>>

(***************************************************************************)
(* The steps of a call: one per access to the tree.                        *)
(***************************************************************************)
\* get: read the entry under the read lock and judge its age.
get_internal(c) ==
    /\ pc[c] = "get_internal"
    /\ \E io \in IO :
          IF io = "err"
          THEN Fail(c) /\ UNCHANGED <<first_insert, later_insert>>
          ELSE LET entry == DbGet(cache_db, CurKey(c))
                   todo == DbGetResult(expires_after, entry, now)
               IN  CASE todo = "Remove" ->
                           /\ Goto(c, "get_remove", idx[c], acc[c])
                           /\ UNCHANGED <<first_insert, later_insert>>
                     [] todo = "NotFound" -> GotValue(c, None)
                     [] OTHER -> GotValue(c, Some(entry[1].value))
    /\ UNCHANGED <<now, expires_after, cache_db, evicted, stale, prev_update>>
    /\ UNCHANGED <<db_held, db_queue, service_vars, pure_vars, ui_vars>>

\* Variant of AfterRemove: a removal that fails fails the get.
AfterRemovePropagates(c, io) ==
    IF io = "err"
    THEN Fail(c) /\ UNCHANGED <<first_insert, later_insert>>
    ELSE GotValue(c, None)

\* get: the result of the removal is only logged, None is returned either way.
AfterRemove(c, io) == GotValue(c, None)

\* get: remove the expired entry; a failure is logged and None returned anyway.
get_remove(c) ==
    /\ pc[c] = "get_remove"
    /\ \E io \in IO :
          /\ cache_db' = IF io = "ok" THEN DbRemove(cache_db, CurKey(c)) ELSE cache_db
          /\ evicted' = IF io = "ok" THEN evicted \cup {CurKey(c)} ELSE evicted
          /\ stale' = IF io = "ok" THEN stale \ {CurKey(c)} ELSE stale \cup {CurKey(c)}
          /\ AfterRemove(c, io)
    /\ UNCHANGED <<now, expires_after, prev_update>>
    /\ UNCHANGED <<db_held, db_queue, service_vars, pure_vars, ui_vars>>

\* insert: write the entry, stamped with the time of the write.
insert_internal(c) ==
    /\ pc[c] = "insert_internal"
    /\ \E io \in IO :
          IF io = "err"
          THEN Fail(c) /\ UNCHANGED <<cache_db, first_insert, later_insert, evicted, stale>>
          ELSE /\ cache_db' = DbInsert(cache_db, CurKey(c), CacheEntry(CurVal(c), now))
               /\ evicted' = evicted \ {CurKey(c)}
               /\ stale' = stale \ {CurKey(c)}
               /\ Inserted(c)
    /\ UNCHANGED <<now, expires_after, prev_update>>
    /\ UNCHANGED <<db_held, db_queue, service_vars, pure_vars, ui_vars>>

\* remove: delete the key under the write lock.
remove_internal(c) ==
    /\ pc[c] = "remove_internal"
    /\ \E io \in IO :
          IF io = "err"
          THEN Fail(c) /\ UNCHANGED <<cache_db, first_insert, later_insert, stale>>
          ELSE /\ cache_db' = DbRemove(cache_db, call[c].key)
               /\ stale' = stale \ {call[c].key}
               /\ first_insert' = [first_insert EXCEPT ![call[c].key] = None]
               /\ later_insert' = [later_insert EXCEPT ![call[c].key] = FALSE]
               /\ Return(c, "Ok", None, NoResults)
    /\ UNCHANGED <<now, expires_after, evicted, prev_update>>
    /\ UNCHANGED <<db_held, db_queue, service_vars, pure_vars, ui_vars>>

\* get_many: every get has answered; fold the answers into the result.
get_many_fold(c) ==
    /\ pc[c] = "fold"
    /\ Return(c, "Ok", None, Fold(acc[c]))
    /\ UNCHANGED <<now, expires_after, cache_db, hist>>
    /\ UNCHANGED <<db_held, db_queue, service_vars, pure_vars, ui_vars>>

\* update: every insert has returned Ok.
update_done(c) ==
    /\ pc[c] = "updated"
    /\ Return(c, "Ok", None, NoResults)
    /\ UNCHANGED <<now, expires_after, cache_db, hist>>
    /\ UNCHANGED <<db_held, db_queue, service_vars, pure_vars, ui_vars>>

\* get_all: collect the whole tree under the read lock.
get_all_scan(c) ==
    /\ pc[c] = "scan"
    /\ \E io \in IO :
          IF io = "err" THEN Fail(c) ELSE Goto(c, "filter", idx[c], DbIter(cache_db))
    /\ UNCHANGED <<now, expires_after, cache_db, hist>>
    /\ UNCHANGED <<db_held, db_queue, service_vars, pure_vars, ui_vars>>

\* get_all: judge the age of every entry collected and build the result.
get_all_filter(c) ==
    /\ pc[c] = "filter"
    /\ LET found == GetAllFound(expires_after, acc[c], now)
       IN  Return(c, "Ok", None,
                  GetManyResults(found, <<>>, [i \in 1..Len(found) |-> found[i][1]]))
    /\ UNCHANGED <<now, expires_after, cache_db, hist>>
    /\ UNCHANGED <<db_held, db_queue, service_vars, pure_vars, ui_vars>>

\* The wall clock advances.
Tick ==
    /\ now < MaxTime
    /\ now' = now + 1
    /\ UNCHANGED <<expires_after, cache_db, pc, call, idx, acc, ret, hist>>
    /\ UNCHANGED <<db_held, db_queue, service_vars, pure_vars, ui_vars>>

(***************************************************************************)
(* DictionaryAddressing: from a language pair and a document path to the   *)
(* path of a store. A path is the sequence of its components.              *)
(***************************************************************************)
MaxSaves == 2
FanOut == 10

Tasks == {"t1", "t2"}
Docs == {<<"a.txt">>, <<"docs", "b.txt">>}
Pairs == {<<"English", "Polish">>}
Texts == {"cat"}
Translations == {"kot", "kocur"}

to_deepl_language_static(language) == IF language = "Polish" THEN "PL" ELSE "EN"

dictionaries_directory == <<"dictionaries">>

language_pair_db_key(language_pair) ==
    Append(dictionaries_directory,
           to_deepl_language_static(language_pair[1]) \o "-"
               \o to_deepl_language_static(language_pair[2]))

\* The components of a path written as a string; a leading "/" is the root.
RECURSIVE Components(_)
Components(s) ==
    LET slashes == {i \in 1..Len(s) : SubSeq(s, i, i) = "/"}
        i == CHOOSE n \in slashes : \A m \in slashes : n <= m
    IN  IF s = "" THEN <<>>
        ELSE IF slashes = {} THEN <<s>>
        ELSE (IF i = 1 THEN <<>> ELSE <<SubSeq(s, 1, i - 1)>>)
                 \o Components(SubSeq(s, i + 1, Len(s)))

PathBufFrom(s) ==
    IF s # "" /\ SubSeq(s, 1, 1) = "/" THEN <<"/">> \o Components(s) ELSE Components(s)

IsAbsolute(path) == path # <<>> /\ path[1] = "/"

\* Path::join: an absolute path replaces the base.
PathJoin(base, path) == IF IsAbsolute(path) THEN path ELSE base \o path

project_part_of_db_key(project_key, type_name) ==
    PathJoin(PathBufFrom(project_key), <<type_name>>)

dictionary_project_key_language_pair_key(language_pair, project_key, type_name) ==
    PathJoin(language_pair_db_key(language_pair),
             project_part_of_db_key(project_key, type_name))

RECURSIVE JoinWith(_, _)
JoinWith(components, sep) ==
    IF components = <<>> THEN ""
    ELSE IF Len(components) = 1 THEN components[1]
    ELSE components[1] \o sep \o JoinWith(Tail(components), sep)

original_document_path_project_key(path) == JoinWith(path, "_")

\* Variant of DictionaryPolicy: a dictionary entry lives for no time at all.
DictionaryPolicyShort == After(0)

\* dictionary_at_path: every dictionary store is opened with ExpiresAfter::Never.
DictionaryPolicy == Never

\* The path project_dictionary opens.
project_dictionary(original_document_path, language_pair) ==
    dictionary_project_key_language_pair_key(
        language_pair, original_document_path_project_key(original_document_path),
        "dictionary")

(***************************************************************************)
(* The file system and sled's lock on an open store                        *)
(***************************************************************************)
IsPrefix(p, q) == Len(p) <= Len(q) /\ SubSeq(q, 1, Len(p)) = p

\* std::fs::read_dir(dir), filtered to directories: the children of dir that
\* hold something.
ReadDir(files, dir) ==
    {SubSeq(p, 1, Len(dir) + 1) : p \in {q \in DOMAIN files : IsPrefix(dir, q) /\ Len(q) > Len(dir)}}

Orders(S) == {o \in [1..Cardinality(S) -> S] : Range(o) = S}

Handle(t, path) == [task |-> t, path |-> path]

\* Variant of CanOpen: sled does not refuse a second open.
CanOpenAlways(open, path) == TRUE

\* sled::open takes an exclusive lock on the store's file: it fails while
\* another handle to the same path is alive.
CanOpen(open, path) == \A h \in open : h.path # path

\* sled::open creates the store when there is none.
DiskOpen(files, path) ==
    IF path \in DOMAIN files THEN files
    ELSE [q \in DOMAIN files \cup {path} |-> IF q = path THEN << >> ELSE files[q]]

\* CacheFor::get on a tree: the Option returned and the tree left behind.
GetOutcome(policy, tree, key, t) ==
    LET entry == DbGet(tree, key)
        todo == DbGetResult(policy, entry, t)
    IN  [value |-> IF todo = "Return" THEN Some(entry[1].value) ELSE None,
         tree |-> IF todo = "Remove" THEN DbRemove(tree, key) ELSE tree]

(***************************************************************************)
(* DictionaryService.0, a tokio RwLock<()>: requests are served in the     *)
(* order they were made.                                                   *)
(***************************************************************************)
Guard(t, who, mode) == [task |-> t, who |-> who, mode |-> mode]

Compatible(held, request) ==
    IF request.mode = "write" THEN held = {} ELSE \A h \in held : h.mode = "read"

RECURSIVE Grant(_, _)
Grant(held, queue) ==
    IF queue # <<>> /\ Compatible(held, Head(queue))
    THEN Grant(held \cup {Head(queue)}, Tail(queue))
    ELSE <<held, queue>>

Request(request) ==
    IF guard_queue = <<>> /\ Compatible(guard_held, request)
    THEN /\ guard_held' = guard_held \cup {request}
         /\ guard_queue' = guard_queue
    ELSE /\ guard_held' = guard_held
         /\ guard_queue' = Append(guard_queue, request)

\* Variant of Release: a guard outlives the call that took it.
ReleaseNothing(dropped) ==
    /\ guard_held' = guard_held
    /\ guard_queue' = guard_queue

\* The guards in `dropped` are dropped (or their requests given up).
Release(dropped) ==
    LET g == Grant(guard_held \ dropped,
                   SelectSeq(guard_queue, LAMBDA r : r \notin dropped))
    IN  /\ guard_held' = g[1]
        /\ guard_queue' = g[2]

Has(t, who) == \E h \in guard_held : h.task = t /\ h.who = who

(***************************************************************************)
(* Service calls and their results                                         *)
(***************************************************************************)
DictionarySuggestion(original_text, translated_text, match_type) ==
    [original_text |-> original_text, translated_text |-> translated_text,
     match_type |-> match_type]

\* Variant of Suggest: the stored list is walked from its end.
SuggestReversed(original_text, exact) ==
    [i \in 1..Len(exact) |->
        DictionarySuggestion(original_text, exact[Len(exact) + 1 - i], "Exact")]

\* get_suggestions_from_db: one Exact suggestion per stored translation.
Suggest(original_text, exact) ==
    [i \in 1..Len(exact) |-> DictionarySuggestion(original_text, exact[i], "Exact")]

\* get_suggestions_from_db: nothing is pushed when the text has no entry.
Suggestions(original_text, value) ==
    IF value = None THEN <<>> ELSE Suggest(original_text, value[1])

\* Variant of Appended: the new translation is left out.
AppendedNothing(current, translated_text) == current

\* save_translation: the list read, with the new translation chained on.
Appended(current, translated_text) == Append(current, translated_text)

RECURSIVE Flatten(_)
Flatten(lists) == IF lists = <<>> THEN <<>> ELSE Head(lists) \o Flatten(Tail(lists))

\* Variant of Dedup: nothing is left out.
DedupNothing(suggestions, uniques) == suggestions

\* get_global_suggestions: keep the first suggestion of every translated text.
RECURSIVE Dedup(_, _)
Dedup(suggestions, uniques) ==
    IF suggestions = <<>> THEN <<>>
    ELSE IF Head(suggestions).translated_text \in uniques
         THEN Dedup(Tail(suggestions), uniques)
         ELSE <<Head(suggestions)>>
                 \o Dedup(Tail(suggestions),
                          uniques \cup {Head(suggestions).translated_text})

Job(label, op, doc, pair, text, tr) ==
    [pc |-> label, op |-> op, doc |-> doc, pair |-> pair, text |-> text, tr |-> tr,
     updated |-> <<>>, todo |-> <<>>, inflight |-> {}, results |-> <<>>,
     listed |-> FALSE, dirs |-> 0, skipped |-> {}, settled |-> FALSE]

NoJob == Job("idle", "none", <<>>, <<>>, "", "")

\* What a service call returned; with it (history) the translations saved so
\* far for its project and text, and the list the store held, at the return;
\* whether it listed the directory, the stores it skipped, and whether the
\* project stores were settled when it started.
Done(j, status, cause, suggestions, history, stored) ==
    [op |-> j.op, doc |-> j.doc, pair |-> j.pair, text |-> j.text, tr |-> j.tr,
     status |-> status, cause |-> cause, suggestions |-> suggestions,
     history |-> history, stored |-> stored,
     listed |-> j.listed, skipped |-> j.skipped, settled |-> j.settled,
     at |-> now]

NoDone == [Done(NoJob, "none", "", <<>>, <<>>, <<>>) EXCEPT !.at = 0]

Stored(files, path, text) ==
    IF path \in DOMAIN files /\ text \in DOMAIN files[path]
    THEN files[path][text].value ELSE <<>>

StoredByProject(files, pair, text) ==
    [doc \in Docs |-> Stored(files, project_dictionary(doc, pair), text)]

\* History: no save_translation is running and none will start any more, so
\* the lists the project stores hold stay as they are.
Settled == saves = MaxSaves /\ \A t \in Tasks : job[t].op # "save_translation"

ServiceInit ==
    /\ disk = << >>
    /\ handles = {}
    /\ guard_held = {}
    /\ guard_queue = <<>>
    /\ job = [t \in Tasks |-> NoJob]
    /\ done = [t \in Tasks |-> NoDone]
    /\ saved = [k \in Docs \X Pairs \X Texts |-> <<>>]
    /\ saves = 0
    /\ open_conflict = FALSE

\* The translations saved so far for the project and text of a call.
SavedFor(history, j) ==
    IF <<j.doc, j.pair, j.text>> \in DOMAIN history
    THEN history[<<j.doc, j.pair, j.text>>] ELSE <<>>

\* A call starts.
Start(t, newjob) ==
    /\ job[t].pc = "idle"
    /\ job' = [job EXCEPT ![t] =
                  [newjob EXCEPT
                      !.settled = Settled /\ newjob.op = "get_global_suggestions"]]
    /\ done' = [done EXCEPT ![t] = NoDone]

\* A call returns: its guards and its store handles are dropped with it.
Leave(t, status, cause, suggestions, files, history) ==
    /\ Release({g \in guard_held \cup Range(guard_queue) : g.task = t})
    /\ handles' = {h \in handles : h.task # t}
    /\ done' = [done EXCEPT ![t] =
                   Done(job[t], status, cause, suggestions,
                        SavedFor(history, job[t]),
                        Stored(files, project_dictionary(job[t].doc, job[t].pair),
                               job[t].text))]
    /\ job' = [job EXCEPT ![t] = NoJob]

FailWith(t, cause) ==
    /\ Leave(t, "Err", cause, <<>>, disk, saved)
    /\ UNCHANGED <<disk, saved>>

(***************************************************************************)
(* save_translation                                                        *)
(***************************************************************************)
save_translation(t, doc, pair, text, tr) ==
    /\ saves < MaxSaves
    /\ Start(t, Job("save_open", "save_translation", doc, pair, text, tr))
    /\ Request(Guard(t, <<"save_translation">>, "write"))
    /\ saves' = saves + 1
    /\ UNCHANGED <<disk, handles, saved, open_conflict, store_vars, pure_vars, ui_vars>>

\* With the exclusive guard: open the project's store.
save_open(t) ==
    /\ job[t].pc = "save_open"
    /\ Has(t, <<"save_translation">>)
    /\ LET path == project_dictionary(job[t].doc, job[t].pair)
       IN  IF ~CanOpen(handles, path)
           THEN /\ open_conflict' = TRUE
                /\ FailWith(t, "open_conflict")
           ELSE /\ open_conflict' = open_conflict
                /\ \E io \in IO :
                      IF io = "err"
                      THEN FailWith(t, "io")
                      ELSE /\ handles' = handles \cup {Handle(t, path)}
                           /\ disk' = DiskOpen(disk, path)
                           /\ job' = [job EXCEPT ![t].pc = "save_get"]
                           /\ UNCHANGED <<guard_held, guard_queue, done, saved>>
    /\ UNCHANGED <<saves, store_vars, pure_vars, ui_vars>>

\* cache.get(original_text), and the list to write.
save_get(t) ==
    /\ job[t].pc = "save_get"
    /\ LET path == project_dictionary(job[t].doc, job[t].pair)
           out == GetOutcome(expires_after, disk[path], job[t].text, now)
           current == IF out.value = None THEN <<>> ELSE out.value[1]
       IN  \E io \in IO :
              IF io = "err"
              THEN FailWith(t, "io")
              ELSE /\ disk' = [disk EXCEPT ![path] = out.tree]
                   /\ job' = [job EXCEPT ![t].pc = "save_insert",
                                         ![t].updated = Appended(current, job[t].tr)]
                   /\ UNCHANGED <<handles, guard_held, guard_queue, done, saved>>
    /\ UNCHANGED <<saves, open_conflict, store_vars, pure_vars, ui_vars>>

\* cache.insert(original_text, updated): its get, and Ok when the key exists.
save_insert(t) ==
    /\ job[t].pc = "save_insert"
    /\ LET path == project_dictionary(job[t].doc, job[t].pair)
           out == GetOutcome(expires_after, disk[path], job[t].text, now)
           files == [disk EXCEPT ![path] = out.tree]
           history == [saved EXCEPT ![<<job[t].doc, job[t].pair, job[t].text>>] =
                          Append(@, job[t].tr)]
       IN  \E io \in IO :
              IF io = "err"
              THEN FailWith(t, "io")
              ELSE /\ disk' = files
                   /\ IF AlreadyExists(out.value)
                      THEN /\ saved' = history
                           /\ Leave(t, "Ok", "", <<>>, files, history)
                      ELSE /\ job' = [job EXCEPT ![t].pc = "save_insert_internal"]
                           /\ UNCHANGED <<handles, guard_held, guard_queue, done, saved>>
    /\ UNCHANGED <<saves, open_conflict, store_vars, pure_vars, ui_vars>>

\* cache.insert(original_text, updated): its write.
save_insert_internal(t) ==
    /\ job[t].pc = "save_insert_internal"
    /\ LET path == project_dictionary(job[t].doc, job[t].pair)
           files == [disk EXCEPT ![path] =
                        DbInsert(@, job[t].text, CacheEntry(job[t].updated, now))]
           history == [saved EXCEPT ![<<job[t].doc, job[t].pair, job[t].text>>] =
                          Append(@, job[t].tr)]
       IN  \E io \in IO :
              IF io = "err"
              THEN FailWith(t, "io")
              ELSE /\ disk' = files
                   /\ saved' = history
                   /\ Leave(t, "Ok", "", <<>>, files, history)
    /\ UNCHANGED <<saves, open_conflict, store_vars, pure_vars, ui_vars>>

(***************************************************************************)
(* get_project_suggestions and get_suggestions_from_db                     *)
(***************************************************************************)
get_project_suggestions(t, doc, pair, text) ==
    /\ Start(t, Job("project_open", "get_project_suggestions", doc, pair, text, ""))
    /\ Request(Guard(t, <<"get_project_suggestions">>, "read"))
    /\ UNCHANGED <<disk, handles, saved, saves, open_conflict, store_vars, pure_vars, ui_vars>>

\* With the shared guard: open the project's store and hand it to the lookup.
project_open(t) ==
    /\ job[t].pc = "project_open"
    /\ Has(t, <<"get_project_suggestions">>)
    /\ LET path == project_dictionary(job[t].doc, job[t].pair)
       IN  IF ~CanOpen(handles, path)
           THEN /\ open_conflict' = TRUE
                /\ FailWith(t, "open_conflict")
           ELSE /\ open_conflict' = open_conflict
                /\ \E io \in IO :
                      IF io = "err"
                      THEN FailWith(t, "io")
                      ELSE /\ handles' = handles \cup {Handle(t, path)}
                           /\ disk' = DiskOpen(disk, path)
                           /\ job' = [job EXCEPT
                                         ![t].pc = "lookup",
                                         ![t].inflight = {[path |-> path, stage |-> "new"]}]
                           /\ UNCHANGED <<guard_held, guard_queue, done, saved>>
    /\ UNCHANGED <<saves, store_vars, pure_vars, ui_vars>>

\* Variant of BufferFull: the buffer takes any number of lookups.
BufferNeverFull(t) == FALSE

\* buffer_unordered(10): the buffer holds as many lookups as it may.
BufferFull(t) == Cardinality(job[t].inflight) >= FanOut

\* buffer_unordered fills its buffer before it polls the lookups in it.
Polled(t) ==
    /\ job[t].pc = "lookup"
    /\ job[t].todo = <<>> \/ BufferFull(t)

\* get_suggestions_from_db: ask for the shared guard.
get_suggestions_from_db_guard(t, path) ==
    /\ Polled(t)
    /\ [path |-> path, stage |-> "new"] \in job[t].inflight
    /\ Request(Guard(t, path, "read"))
    /\ job' = [job EXCEPT ![t].inflight =
                  (@ \ {[path |-> path, stage |-> "new"]})
                      \cup {[path |-> path, stage |-> "wait"]}]
    /\ UNCHANGED <<disk, handles, done, saved, saves, open_conflict, store_vars, pure_vars, ui_vars>>

\* get_suggestions_from_db: with the guard, look the text up and return.
get_suggestions_from_db(t, path) ==
    /\ Polled(t)
    /\ [path |-> path, stage |-> "wait"] \in job[t].inflight
    /\ Has(t, path)
    /\ LET out == GetOutcome(expires_after, disk[path], job[t].text, now)
           files == [disk EXCEPT ![path] = out.tree]
           suggestions == Suggestions(job[t].text, out.value)
       IN  \E io \in IO :
              IF io = "err"
              THEN FailWith(t, "io")
              ELSE /\ disk' = files
                   /\ saved' = saved
                   /\ IF job[t].op = "get_project_suggestions"
                      THEN Leave(t, "Ok", "", suggestions, files, saved)
                      ELSE /\ Release({Guard(t, path, "read")})
                           /\ handles' = handles \ {Handle(t, path)}
                           /\ job' = [job EXCEPT
                                         ![t].inflight = @ \ {[path |-> path, stage |-> "wait"]},
                                         ![t].results = Append(@, suggestions)]
                           /\ done' = done
    /\ UNCHANGED <<saves, open_conflict, store_vars, pure_vars, ui_vars>>

(***************************************************************************)
(* get_global_suggestions                                                  *)
(***************************************************************************)
get_global_suggestions(t, pair, text) ==
    /\ Start(t, Job("read_dir", "get_global_suggestions", <<>>, pair, text, ""))
    /\ UNCHANGED <<disk, handles, guard_held, guard_queue, saved, saves,
                   open_conflict, store_vars, pure_vars, ui_vars>>

\* List the directories under the language pair's directory.
global_read_dir(t) ==
    /\ job[t].pc = "read_dir"
    /\ LET dirs == ReadDir(disk, language_pair_db_key(job[t].pair))
       IN  \E io \in IO :
              IF io = "err" \/ dirs = {}
              THEN FailWith(t, "read_dir")
              ELSE /\ \E order \in Orders(dirs) :
                         job' = [job EXCEPT ![t].pc = "lookup", ![t].todo = order,
                                            ![t].listed = TRUE,
                                            ![t].dirs = Cardinality(dirs)]
                   /\ UNCHANGED <<disk, handles, guard_held, guard_queue, done, saved>>
    /\ UNCHANGED <<saves, open_conflict, store_vars, pure_vars, ui_vars>>

\* Variant of OpenFailed: a store that does not open ends the whole call.
OpenFailedAborts(t, path) == FailWith(t, "open")

\* filter_map(.. .ok()): a store that does not open is left out.
OpenFailed(t, path) ==
    /\ job' = [job EXCEPT ![t].todo = Tail(@), ![t].skipped = @ \cup {path}]
    /\ UNCHANGED <<disk, handles, guard_held, guard_queue, done, saved>>

\* dictionary_at_path on the next directory: a store that does not open is
\* skipped, one that opens gets its lookup.
global_open(t) ==
    /\ job[t].pc = "lookup"
    /\ job[t].op = "get_global_suggestions"
    /\ job[t].todo # <<>>
    /\ ~BufferFull(t)
    /\ LET path == Head(job[t].todo)
       IN  IF ~CanOpen(handles, path)
           THEN /\ open_conflict' = TRUE
                /\ OpenFailed(t, path)
           ELSE /\ open_conflict' = open_conflict
                /\ \E io \in IO :
                      IF io = "err"
                      THEN OpenFailed(t, path)
                      ELSE /\ handles' = handles \cup {Handle(t, path)}
                           /\ disk' = DiskOpen(disk, path)
                           /\ job' = [job EXCEPT
                                         ![t].todo = Tail(@),
                                         ![t].inflight = @ \cup {[path |-> path, stage |-> "new"]}]
                           /\ UNCHANGED <<guard_held, guard_queue, done, saved>>
    /\ UNCHANGED <<saves, store_vars, pure_vars, ui_vars>>

\* Every lookup has returned: merge, keeping first occurrences.
global_collect(t) ==
    /\ job[t].pc = "lookup"
    /\ job[t].op = "get_global_suggestions"
    /\ job[t].todo = <<>>
    /\ job[t].inflight = {}
    /\ Leave(t, "Ok", "", Dedup(Flatten(job[t].results), {}), disk, saved)
    /\ UNCHANGED <<disk, saved, saves, open_conflict, store_vars, pure_vars, ui_vars>>

(***************************************************************************)
(* The window of the application (src/ui.rs): TlumokState::update, for the  *)
(* messages that touch the focused segment and the suggestion panel. A     *)
(* task given to Command::perform is an element of commands until its      *)
(* message is delivered; tasks finish in any order. The messages that only *)
(* edit a segment's text (TranslationInput, ApplyTranslation,              *)
(* ConfirmTranslation, Save) leave the fields kept here as they are.       *)
(***************************************************************************)
MaxSegments == 3
MaxPending == 2

\* enum SuggestionKind
SuggestionKind == {"Global", "Machine", "Project"}

ReceivedLists == {<<>>, <<"kot">>}

\* format!("segment_{index}"): the keys of a workspace of n segments, in order.
SegmentKeys(n) == [i \in 1..n |-> "segment_" \o ToString(i - 1)]

\* SuggestionPanel::default()
SuggestionPanelDefault == [kind \in SuggestionKind |-> None]

\* AppMode::default(): the file picker. The fields of InWorkspace are kept
\* in the same record, empty.
PickingFile ==
    [mode |-> "PickingFile", segments |-> <<>>, focused_index |-> None,
     suggestions |-> SuggestionPanelDefault]

\* InWorkspace { translation_workspace, focused_index, suggestions }
InWorkspace(segments, focused_index, suggestions) ==
    [mode |-> "InWorkspace", segments |-> segments, focused_index |-> focused_index,
     suggestions |-> suggestions]

NothingShown == [for |-> [kind \in SuggestionKind |-> None], discarded |-> FALSE]

\* TlumokState::new
TlumokInit ==
    /\ app_mode = PickingFile
    /\ commands = <<>>
    /\ shown = NothingShown

\* Variant of IsSame: every index counts as the focused one.
IsSameAlways(focused_index, next_index) == TRUE

\* focused_index.as_ref().map(|current| current == &next_index).unwrap_or_default()
IsSame(focused_index, next_index) ==
    focused_index # None /\ focused_index[1] = next_index

\* InWorkspace::select_index
select_index(in_workspace, next_index) ==
    IF next_index \in Range(in_workspace.segments)
    THEN [in_workspace EXCEPT
            !.suggestions = IF IsSame(in_workspace.focused_index, next_index)
                            THEN @ ELSE SuggestionPanelDefault,
            !.focused_index = Some(next_index)]
    ELSE in_workspace

\* The lists that are shown keep their index; a panel reset shows nothing.
ShownAfter(in_workspace) ==
    [shown EXCEPT !.for = [kind \in SuggestionKind |->
                              IF in_workspace.suggestions[kind] = None THEN None
                              ELSE @[kind]]]

Select(next_index) ==
    /\ app_mode' = select_index(app_mode, next_index)
    /\ shown' = ShownAfter(select_index(app_mode, next_index))

\* A task of Command::perform and the message it will produce.
Task(msg, key, kind) == [msg |-> msg, key |-> key, kind |-> kind]

Delivered(i) == SubSeq(commands, 1, i - 1) \o SubSeq(commands, i + 1, Len(commands))

\* Message::FileSelected, in the file picker, on a file
FileSelected ==
    /\ app_mode.mode = "PickingFile"
    /\ Len(commands) < MaxPending
    /\ commands' = Append(commands, Task("NewWorkspaceLoaded", "", ""))
    /\ UNCHANGED <<app_mode, shown, store_vars, service_vars, pure_vars>>

\* Message::NewWorkspaceLoaded(res); n is the number of segments of the workspace
NewWorkspaceLoaded(i, res) ==
    /\ commands[i].msg = "NewWorkspaceLoaded"
    /\ commands' = Delivered(i)
    /\ IF res[1] = "Ok"
       THEN /\ app_mode' = InWorkspace(SegmentKeys(res[2]),
                                       IF res[2] = 0 THEN None ELSE Some(SegmentKeys(res[2])[1]),
                                       SuggestionPanelDefault)
            /\ shown' = [shown EXCEPT !.for = NothingShown.for]
       ELSE UNCHANGED <<app_mode, shown>>
    /\ UNCHANGED <<store_vars, service_vars, pure_vars>>

\* Message::ClickedOn(index)
ClickedOn(index) ==
    /\ app_mode.mode = "InWorkspace"
    /\ Select(index)
    /\ UNCHANGED <<commands, store_vars, service_vars, pure_vars>>

\* Message::Tab: the key after the focused one, if there is one
Tab ==
    /\ app_mode.mode = "InWorkspace"
    /\ LET keys == app_mode.segments
           found == {i \in 1..(Len(keys) - 1) : IsSame(app_mode.focused_index, keys[i])}
       IN  IF found = {} THEN UNCHANGED <<app_mode, shown>>
           ELSE Select(keys[(CHOOSE i \in found : \A j \in found : i <= j) + 1])
    /\ UNCHANGED <<commands, store_vars, service_vars, pure_vars>>

\* Message::CtrlTab: the key before the focused one, if there is one
CtrlTab ==
    /\ app_mode.mode = "InWorkspace"
    /\ LET keys == app_mode.segments
           found == {i \in 1..(Len(keys) - 1) : IsSame(app_mode.focused_index, keys[i + 1])}
       IN  IF found = {} THEN UNCHANGED <<app_mode, shown>>
           ELSE Select(keys[CHOOSE i \in found : \A j \in found : i <= j])
    /\ UNCHANGED <<commands, store_vars, service_vars, pure_vars>>

\* Message::RequestedTranslations((kind, index)): the index of the message is
\* not read; the task is tagged with the index focused now.
RequestedTranslations(kind, index) ==
    /\ app_mode.mode = "InWorkspace"
    /\ app_mode.focused_index # None
    /\ app_mode.focused_index[1] \in Range(app_mode.segments)
    /\ Len(commands) < MaxPending
    /\ commands' = Append(commands, Task("ReceivedTranslations", app_mode.focused_index[1], kind))
    /\ UNCHANGED <<app_mode, shown, store_vars, service_vars, pure_vars>>

\* Message::ReceivedTranslations(event), event = (key, kind, new_suggestions)
ReceivedTranslations(i, new_suggestions) ==
    /\ commands[i].msg = "ReceivedTranslations"
    /\ commands' = Delivered(i)
    /\ LET key == commands[i].key
           kind == commands[i].kind
       IN  IF app_mode.mode = "InWorkspace" /\ IsSame(app_mode.focused_index, key)
           THEN IF new_suggestions[1] = "Ok"
                THEN /\ app_mode' = [app_mode EXCEPT !.suggestions[kind] = Some(new_suggestions[2])]
                     /\ shown' = [shown EXCEPT !.for[kind] = Some(key)]
                ELSE UNCHANGED <<app_mode, shown>>
           ELSE /\ shown' = [shown EXCEPT !.discarded = @ \/ new_suggestions[1] = "Ok"]
                /\ UNCHANGED app_mode
    /\ UNCHANGED <<store_vars, service_vars, pure_vars>>

NextPanel ==
    \/ FileSelected
    \/ \E i \in 1..Len(commands), res \in {<<"Err", "">>} \cup {Ok(n) : n \in 0..MaxSegments} :
          NewWorkspaceLoaded(i, res)
    \/ \E index \in Range(SegmentKeys(MaxSegments)) : ClickedOn(index)
    \/ Tab
    \/ CtrlTab
    \/ \E kind \in SuggestionKind, index \in Range(SegmentKeys(MaxSegments)) :
          RequestedTranslations(kind, index)
    \/ \E i \in 1..Len(commands),
          new_suggestions \in {<<"Err", "">>} \cup {Ok(l) : l \in ReceivedLists} :
          ReceivedTranslations(i, new_suggestions)

(***************************************************************************)
(* The two systems                                                         *)
(***************************************************************************)
\* No function is being applied on its own.
PureInit ==
    /\ arg = <<>>
    /\ result = None

Init ==
    /\ \E policy \in {Never, After(Dur)} : StoreInit(policy)
    /\ ServiceInit
    /\ TlumokInit
    /\ PureInit

Next ==
    \/ \E c \in Clients, k \in Keys, v \in Vals : insert(c, k, v)
    \/ \E c \in Clients, k \in Keys : get(c, k)
    \/ \E c \in Clients, k \in Keys : remove(c, k)
    \/ \E c \in Clients, keys \in SeqsUpTo(Keys, MaxLen) : get_many(c, keys)
    \/ \E c \in Clients, entries \in SeqsUpTo(Keys \X Vals, MaxLen) : update(c, entries)
    \/ \E c \in Clients : get_all(c)
    \/ \E c \in Clients : get_internal(c)
    \/ \E c \in Clients : get_remove(c)
    \/ \E c \in Clients : insert_internal(c)
    \/ \E c \in Clients : remove_internal(c)
    \/ \E c \in Clients : get_many_fold(c)
    \/ \E c \in Clients : update_done(c)
    \/ \E c \in Clients : get_all_scan(c)
    \/ \E c \in Clients : get_all_filter(c)
    \/ Tick

Spec == Init /\ [][Next]_vars

InitService == StoreInit(DictionaryPolicy) /\ ServiceInit /\ PureInit /\ TlumokInit

NextService ==
    \/ \E t \in Tasks, doc \in Docs, pair \in Pairs, text \in Texts, tr \in Translations :
          save_translation(t, doc, pair, text, tr)
    \/ \E t \in Tasks : save_open(t)
    \/ \E t \in Tasks : save_get(t)
    \/ \E t \in Tasks : save_insert(t)
    \/ \E t \in Tasks : save_insert_internal(t)
    \/ \E t \in Tasks, doc \in Docs, pair \in Pairs, text \in Texts :
          get_project_suggestions(t, doc, pair, text)
    \/ \E t \in Tasks : project_open(t)
    \/ \E t \in Tasks, path \in DOMAIN disk : get_suggestions_from_db_guard(t, path)
    \/ \E t \in Tasks, path \in DOMAIN disk : get_suggestions_from_db(t, path)
    \/ \E t \in Tasks, pair \in Pairs, text \in Texts : get_global_suggestions(t, pair, text)
    \/ \E t \in Tasks : global_read_dir(t)
    \/ \E t \in Tasks : global_open(t)
    \/ \E t \in Tasks : global_collect(t)

SpecService == InitService /\ [][NextService]_vars

(***************************************************************************)
(* Two tasks saving translations and asking for project suggestions, with  *)
(* the runtime polling every task that can take a step.                    *)
(***************************************************************************)
NextGuard ==
    \/ \E t \in Tasks, doc \in Docs, pair \in Pairs, text \in Texts, tr \in Translations :
          save_translation(t, doc, pair, text, tr)
    \/ \E t \in Tasks : save_open(t)
    \/ \E t \in Tasks : save_get(t)
    \/ \E t \in Tasks : save_insert(t)
    \/ \E t \in Tasks : save_insert_internal(t)
    \/ \E t \in Tasks, doc \in Docs, pair \in Pairs, text \in Texts :
          get_project_suggestions(t, doc, pair, text)
    \/ \E t \in Tasks : project_open(t)
    \/ \E t \in Tasks, path \in DOMAIN disk : get_suggestions_from_db_guard(t, path)
    \/ \E t \in Tasks, path \in DOMAIN disk : get_suggestions_from_db(t, path)

\* The next step of the call a task is in.
Step(t) ==
    \/ save_open(t)
    \/ save_get(t)
    \/ save_insert(t)
    \/ save_insert_internal(t)
    \/ project_open(t)
    \/ \E path \in DOMAIN disk : get_suggestions_from_db_guard(t, path)
    \/ \E path \in DOMAIN disk : get_suggestions_from_db(t, path)

\* A task whose call can go on is woken and polled.
FairGuard == \A t \in Tasks : WF_vars(Step(t))

SpecGuard == InitService /\ [][NextGuard]_vars /\ FairGuard

(***************************************************************************)
(* One task calling the operations of the DictionaryService one after the  *)
(* other, while the wall clock advances.                                   *)
(***************************************************************************)
Solo == {"t1"}

NextClock ==
    \/ \E t \in Solo, doc \in Docs, pair \in Pairs, text \in Texts, tr \in Translations :
          save_translation(t, doc, pair, text, tr)
    \/ \E t \in Solo : save_open(t)
    \/ \E t \in Solo : save_get(t)
    \/ \E t \in Solo : save_insert(t)
    \/ \E t \in Solo : save_insert_internal(t)
    \/ \E t \in Solo, doc \in Docs, pair \in Pairs, text \in Texts :
          get_project_suggestions(t, doc, pair, text)
    \/ \E t \in Solo : project_open(t)
    \/ \E t \in Solo, path \in DOMAIN disk : get_suggestions_from_db_guard(t, path)
    \/ \E t \in Solo, path \in DOMAIN disk : get_suggestions_from_db(t, path)
    \/ \E t \in Solo, pair \in Pairs, text \in Texts : get_global_suggestions(t, pair, text)
    \/ \E t \in Solo : global_read_dir(t)
    \/ \E t \in Solo : global_open(t)
    \/ \E t \in Solo : global_collect(t)
    \/ Tick

SpecClock == InitService /\ [][NextClock]_vars

(***************************************************************************)
(* The merge of get_global_suggestions, applied on its own to the lists    *)
(* the lookups returned, in the order they arrived.                        *)
(***************************************************************************)
MaxProjects == 2

Words == {"foo", "bar", "baz"}

SuggestionLists ==
    {Suggest("cat", texts) : texts \in SeqsUpTo(Words, MaxLen)}

InitDedup ==
    /\ StoreInit(Never)
    /\ ServiceInit
    /\ TlumokInit
    /\ arg \in SeqsUpTo(SuggestionLists, MaxProjects)
    /\ result = None

\* for suggestion in suggestions.into_iter().flatten() { .. }
dedup ==
    /\ result = None
    /\ result' = Some(Dedup(Flatten(arg), {}))
    /\ UNCHANGED <<arg, store_vars, service_vars, ui_vars>>

NextDedup == dedup

SpecDedup == InitDedup /\ [][NextDedup]_vars

(***************************************************************************)
(* Two tasks inserting through one CacheFor handle at the same time.       *)
(***************************************************************************)
InitRace == StoreInit(Never) /\ ServiceInit /\ PureInit /\ TlumokInit

NextRace ==
    \/ \E c \in Racers, k \in Keys, v \in Vals : insert(c, k, v)
    \/ \E c \in Racers : get_internal(c)
    \/ \E c \in Racers : insert_internal(c)

SpecRace == InitRace /\ [][NextRace]_vars

(***************************************************************************)
(* Two tasks at the tree of one CacheFor handle: every access takes the    *)
(* handle's RwLock first, works on the tree inside block_in_place, and     *)
(* drops the guard when it returns.                                        *)
(***************************************************************************)
\* Variant of LockMode: every access takes the shared guard.
LockModeAlwaysRead(op) == "read"

\* cache_db.write() in insert_internal and remove, cache_db.read() in
\* get_internal and get_all.
LockMode(op) == IF op \in {"insert_internal", "remove"} THEN "write" ELSE "read"

DbGuard(c, op) == [task |-> c, mode |-> LockMode(op)]

Accesses ==
    {Call("get_internal", k, "", <<>>, <<>>) : k \in Keys}
        \cup {Call("insert_internal", kv[1], kv[2], <<>>, <<>>) : kv \in Keys \X Vals}
        \cup {Call("remove", k, "", <<>>, <<>>) : k \in Keys}
        \cup {Call("get_all", "", "", <<>>, <<>>)}

\* let db = self.cache_db.read().await / .write().await: ask for the guard.
lock_request(c, access) ==
    /\ pc[c] = "idle"
    /\ pc' = [pc EXCEPT ![c] = "lock_wait"]
    /\ call' = [call EXCEPT ![c] = access]
    /\ LET request == DbGuard(c, access.op)
       IN  IF db_queue = <<>> /\ Compatible(db_held, request)
           THEN /\ db_held' = db_held \cup {request}
                /\ db_queue' = db_queue
           ELSE /\ db_held' = db_held
                /\ db_queue' = Append(db_queue, request)
    /\ UNCHANGED <<now, expires_after, cache_db, idx, acc, ret, hist>>
    /\ UNCHANGED <<service_vars, pure_vars, ui_vars>>

\* With the guard: block_in_place starts working on the tree.
lock_access(c) ==
    /\ pc[c] = "lock_wait"
    /\ \E h \in db_held : h.task = c
    /\ pc' = [pc EXCEPT ![c] = "access"]
    /\ UNCHANGED <<now, expires_after, cache_db, db_held, db_queue, call, idx, acc, ret, hist>>
    /\ UNCHANGED <<service_vars, pure_vars, ui_vars>>

\* The access is done, well or not; the function returns and drops the guard.
lock_release(c) ==
    /\ pc[c] = "access"
    /\ \E io \in IO :
          cache_db' =
             CASE io = "err" -> cache_db
               [] call[c].op = "insert_internal" ->
                     DbInsert(cache_db, call[c].key, CacheEntry(call[c].val, now))
               [] call[c].op = "remove" -> DbRemove(cache_db, call[c].key)
               [] OTHER -> cache_db
    /\ LET g == Grant({h \in db_held : h.task # c}, db_queue)
       IN  /\ db_held' = g[1]
           /\ db_queue' = g[2]
    /\ pc' = [pc EXCEPT ![c] = "idle"]
    /\ call' = [call EXCEPT ![c] = NoCall]
    /\ UNCHANGED <<now, expires_after, idx, acc, ret, hist>>
    /\ UNCHANGED <<service_vars, pure_vars, ui_vars>>

InitLock == StoreInit(Never) /\ ServiceInit /\ PureInit /\ TlumokInit

NextLock ==
    \/ \E c \in Racers, access \in Accesses : lock_request(c, access)
    \/ \E c \in Racers : lock_access(c)
    \/ \E c \in Racers : lock_release(c)

SpecLock == InitLock /\ [][NextLock]_vars

(***************************************************************************)
(* Two tasks on one CacheFor handle whose entries expire, one reading and  *)
(* one inserting, while the wall clock advances.                           *)
(***************************************************************************)
InitEvict == StoreInit(After(Dur)) /\ ServiceInit /\ PureInit /\ TlumokInit

\* One task reads, the other inserts; both work on the first key.
Reader == "c1"

Writer == "c2"

NextEvict ==
    \/ \E v \in Vals : insert(Writer, KeySeq[1], v)
    \/ get(Reader, KeySeq[1])
    \/ \E c \in Racers : get_internal(c)
    \/ \E c \in Racers : get_remove(c)
    \/ \E c \in Racers : insert_internal(c)
    \/ Tick

SpecEvict == InitEvict /\ [][NextEvict]_vars

(***************************************************************************)
(* One client at a handle under After(Dur) whose first key holds an entry  *)
(* that has just expired: inserted at time 0, the clock now past 0 + Dur   *)
(* and standing still while the client inserts and reads.                  *)
(***************************************************************************)
StaleValue == "kot"

InitReplace ==
    /\ now = Dur + 1
    /\ expires_after = After(Dur)
    /\ cache_db = DbInsert(<< >>, KeySeq[1], CacheEntry(StaleValue, 0))
    /\ db_held = {}
    /\ db_queue = <<>>
    /\ pc = [c \in Racers |-> "idle"]
    /\ call = [c \in Racers |-> NoCall]
    /\ idx = [c \in Racers |-> 1]
    /\ acc = [c \in Racers |-> <<>>]
    /\ ret = [c \in Racers |-> NoRet]
    /\ first_insert = [k \in Keys |->
                          IF k = KeySeq[1] THEN Some([value |-> StaleValue, at |-> 0])
                          ELSE None]
    /\ later_insert = [k \in Keys |-> FALSE]
    /\ evicted = {}
    /\ stale = {}
    /\ prev_update = None
    /\ ServiceInit
    /\ TlumokInit
    /\ PureInit

NextReplace ==
    \/ \E c \in Clients, k \in Keys, v \in Vals : insert(c, k, v)
    \/ \E c \in Clients, k \in Keys : get(c, k)
    \/ \E c \in Clients : get_internal(c)
    \/ \E c \in Clients : get_remove(c)
    \/ \E c \in Clients : insert_internal(c)

SpecReplace == InitReplace /\ [][NextReplace]_vars

(***************************************************************************)
(* The address of a project store, derived on its own for two inputs.      *)
(***************************************************************************)
Languages == {"Polish", "English"}

\* Documents as the file dialog gives them: relative or from the root.
DocumentPaths == Docs \cup {<<"/", "a.txt">>}

AddressInputs ==
    [language_pair : Languages \X Languages,
     project_key : {original_document_path_project_key(path) : path \in DocumentPaths}]

InitAddress ==
    /\ StoreInit(Never)
    /\ ServiceInit
    /\ TlumokInit
    /\ arg \in AddressInputs \X AddressInputs
    /\ result = None

\* dictionary_project_key_language_pair_key(language_pair, project_key, "dictionary")
address ==
    /\ result = None
    /\ result' = Some([i \in 1..2 |->
                          dictionary_project_key_language_pair_key(
                              arg[i].language_pair, arg[i].project_key, "dictionary")])
    /\ UNCHANGED <<arg, store_vars, service_vars, ui_vars>>

NextAddress == address

SpecAddress == InitAddress /\ [][NextAddress]_vars

(***************************************************************************)
(* One get_global_suggestions over more project directories than its       *)
(* buffer holds, from the point where its first lookup has returned: the   *)
(* other lookups of the full buffer wait for the guard and the directories *)
(* beyond the buffer are still to be opened.                               *)
(***************************************************************************)
MaxListed == 12

\* The directories listed: one per project that has a store.
ListedDirs ==
    [i \in 1..MaxListed |-> Append(language_pair_db_key(<<"English", "Polish">>), ToString(i))]

\* The directories whose lookups are in the buffer, and those opened so far.
Buffered == {ListedDirs[i] : i \in 2..FanOut}

Opened == {ListedDirs[i] : i \in 1..FanOut}

InitFanOut ==
    /\ StoreInit(Never)
    /\ PureInit
    /\ TlumokInit
    /\ disk = [p \in Opened \cup {Append(ListedDirs[i], "dictionary") : i \in 1..MaxListed}
                  |-> << >>]
    /\ handles = {Handle("t1", p) : p \in Buffered}
    /\ guard_held = {Guard("t1", p, "read") : p \in Buffered}
    /\ guard_queue = <<>>
    /\ job = [t \in Tasks |->
                 IF t = "t1"
                 THEN [Job("lookup", "get_global_suggestions", <<>>,
                           <<"English", "Polish">>, "cat", "")
                       EXCEPT !.todo = SubSeq(ListedDirs, FanOut + 1, MaxListed),
                              !.inflight = {[path |-> p, stage |-> "wait"] : p \in Buffered},
                              !.results = << <<>> >>,
                              !.listed = TRUE, !.dirs = MaxListed]
                 ELSE NoJob]
    /\ done = [t \in Tasks |-> NoDone]
    /\ saved = [k \in Docs \X Pairs \X Texts |-> <<>>]
    /\ saves = 0
    /\ open_conflict = FALSE

NextFanOut ==
    \/ \E t \in Tasks : global_open(t)
    \/ \E t \in Tasks, path \in DOMAIN disk : get_suggestions_from_db_guard(t, path)
    \/ \E t \in Tasks, path \in DOMAIN disk : get_suggestions_from_db(t, path)
    \/ \E t \in Tasks : global_collect(t)

SpecFanOut == InitFanOut /\ [][NextFanOut]_vars

(***************************************************************************)
(* ExpiresAfter::expired applied on its own, to every policy, creation     *)
(* time and clock value.                                                   *)
(***************************************************************************)
Policies == {Never} \cup {After(d) : d \in 0..(ChronoDurationMax + 1)}

InitExpired ==
    /\ StoreInit(Never)
    /\ ServiceInit
    /\ TlumokInit
    /\ arg \in [policy : Policies, created : 0..MaxTime, now : 0..MaxTime]
    /\ result = None

\* self.expires_after.expired(created)
apply_expired ==
    /\ result = None
    /\ result' = Some(expired_result(arg.policy, arg.created, arg.now))
    /\ UNCHANGED <<arg, store_vars, service_vars, ui_vars>>

NextExpired == apply_expired

SpecExpired == InitExpired /\ [][NextExpired]_vars

(***************************************************************************)
(* The suggestions get_suggestions_from_db builds from what the store      *)
(* returned for the queried text.                                          *)
(***************************************************************************)
MaxStored == 3

QueriedTexts == {"cat", "dog"}

StoredValues == {None} \cup {Some(list) : list \in SeqsUpTo(Words, MaxStored)}

InitSuggest ==
    /\ StoreInit(Never)
    /\ ServiceInit
    /\ TlumokInit
    /\ arg \in [original_text : QueriedTexts, value : StoredValues]
    /\ result = None

\* if let Some(exact) = db.get(original_text.clone()).await? { .. }
suggest ==
    /\ result = None
    /\ result' = Some(Suggestions(arg.original_text, arg.value))
    /\ UNCHANGED <<arg, store_vars, service_vars, ui_vars>>

NextSuggest == suggest

SpecSuggest == InitSuggest /\ [][NextSuggest]_vars

(***************************************************************************)
(* The window on its own: no store is opened and no service call is made.  *)
(***************************************************************************)
InitPanel == StoreInit(Never) /\ ServiceInit /\ PureInit /\ TlumokInit

SpecPanel == InitPanel /\ [][NextPanel]_vars

(***************************************************************************)
(* TranslationWorkspace::validated, applied on its own to workspaces of up *)
(* to MaxSegments segments. The segments are an IndexMap, which iterates   *)
(* in insertion order: a sequence, a segment's position being its index.   *)
(***************************************************************************)
\* struct TranslationSegment: the fields validated can tell apart.
TranslationSegment(translated_text, confirmed) ==
    [translated_text |-> translated_text, confirmed |-> confirmed]

Segments ==
    {TranslationSegment(t, c) : t \in Vals, c \in {None} \cup {Some(v) : v \in Vals}}

\* struct TranslationWorkspace
TranslationWorkspace(segments) == [segments |-> segments]

\* eyre::bail!("segment [{index}] is not checked\n\n{segment:#?}")
NotChecked(index) == <<"Err", "segment is not checked", index>>

\* .iter().find(|(_, segment)| !segment.confirmed.is_none())
FindNotChecked(segments) ==
    LET found == {i \in 1..Len(segments) : ~(segments[i].confirmed = None)}
    IN  IF found = {} THEN None
        ELSE Some(CHOOSE i \in found : \A j \in found : i <= j)

\* pub fn validated(self) -> Result<Self>
validated(self) ==
    LET hit == FindNotChecked(self.segments)
    IN  IF hit # None THEN NotChecked(hit[1]) ELSE Ok(self)

InitValidated ==
    /\ StoreInit(Never)
    /\ ServiceInit
    /\ TlumokInit
    /\ arg \in {TranslationWorkspace(s) : s \in SeqsUpTo(Segments, MaxSegments)}
    /\ result = None

\* translation_workspace.validated()
apply_validated ==
    /\ result = None
    /\ result' = Some(validated(arg))
    /\ UNCHANGED <<arg, store_vars, service_vars, ui_vars>>

NextValidated == apply_validated

SpecValidated == InitValidated /\ [][NextValidated]_vars

(***************************************************************************)
(* Properties of the store, checked under Spec.                            *)
(***************************************************************************)
NoDuplicates(s) == \A i, j \in 1..Len(s) : s[i] = s[j] => i = j

\* C1: insert-if-absent. Once insert(k, v1) has created the entry of an absent
\* key and a later insert(k, v2) with another value has returned Ok, the entry
\* still holds v1 and a get(k) returns Some(v1), as long as the entry has not
\* expired.
InsertIfAbsent ==
    /\ \A c \in Clients :
          LET r == ret[c] IN
          (/\ r.op = "get" /\ r.status = "Ok"
           /\ first_insert[r.key] # None /\ later_insert[r.key]
           /\ LiveAt(first_insert[r.key][1].at, r.at))
          => r.value = Some(first_insert[r.key][1].value)
    /\ \A k \in Keys :
          (/\ first_insert[k] # None /\ later_insert[k]
           /\ LiveAt(first_insert[k][1].at, now))
          => /\ k \in DOMAIN cache_db
             /\ cache_db[k].value = first_insert[k][1].value

InsertIfAbsentWitness ==
    \E c \in Clients :
        LET r == ret[c] IN
        /\ r.op = "get" /\ r.status = "Ok"
        /\ first_insert[r.key] # None /\ later_insert[r.key]
        /\ LiveAt(first_insert[r.key][1].at, r.at)
        /\ r.value = Some(first_insert[r.key][1].value)

\* C4 as claimed: under After(d), a get of an entry inserted at t0 returns
\* Some(v) when read at t < t0 + d and None when read at t >= t0 + d.
ExpirationBoundaryClaimed ==
    \A c \in Clients :
        LET r == ret[c] IN
        (/\ r.op = "get" /\ r.status = "Ok"
         /\ expires_after.tag = "After"
         /\ first_insert[r.key] # None)
        => LET t0 == first_insert[r.key][1].at
               d == expires_after.duration
           IN  /\ r.at < t0 + d => r.value = Some(first_insert[r.key][1].value)
               /\ r.at >= t0 + d => r.value = None

\* C4 as amended: under After(d), a get of an entry inserted at t0 returns
\* Some(v) when read at t <= t0 + d (the read at exactly t0 + d included) and
\* None when read at t > t0 + d.
ExpirationBoundary ==
    \A c \in Clients :
        LET r == ret[c] IN
        (/\ r.op = "get" /\ r.status = "Ok"
         /\ expires_after.tag = "After"
         /\ first_insert[r.key] # None)
        => LET t0 == first_insert[r.key][1].at
               d == expires_after.duration
           IN  /\ r.at <= t0 + d => r.value = Some(first_insert[r.key][1].value)
               /\ r.at > t0 + d => r.value = None

ExpirationBoundaryWitness ==
    \E c \in Clients :
        LET r == ret[c] IN
        /\ r.op = "get" /\ r.status = "Ok"
        /\ expires_after.tag = "After"
        /\ first_insert[r.key] # None
        /\ r.at = first_insert[r.key][1].at + expires_after.duration
        /\ r.value = Some(first_insert[r.key][1].value)

\* C5 as claimed: the found list of get_all holds exactly the (key, value)
\* pairs of the entries that are not expired when get_all judges them.
GetAllLiveOnly ==
    \A c \in Clients :
        LET r == ret[c] IN
        (r.op = "get_all" /\ r.status = "Ok")
        => Range(r.found) =
              {<<k, cache_db[k].value>> :
                  k \in {x \in DOMAIN cache_db : LiveAt(cache_db[x].created, r.at)}}

\* C6: a key that a get removed as expired, and that was not inserted since,
\* is in neither found nor found_keys of a later get_all.
EvictedStaysOut ==
    \A c \in Clients :
        LET r == ret[c] IN
        (r.op = "get_all" /\ r.status = "Ok")
        => /\ Range(r.found_keys) \cap evicted = {}
           /\ \A i \in 1..Len(r.found) : r.found[i][1] \notin evicted

EvictedStaysOutWitness ==
    \E c \in Clients :
        /\ ret[c].op = "get_all" /\ ret[c].status = "Ok"
        /\ evicted # {}
        /\ ret[c].found # <<>>

\* What C7 says of the result of one get_many.
Partitioned(r) ==
    /\ Range(r.found_keys) \cap Range(r.not_found_keys) = {}
    /\ Range(r.found_keys) \cup Range(r.not_found_keys) = Range(r.keys)
    /\ Len(r.found) = Len(r.found_keys)
    /\ \A i \in 1..Len(r.found) : r.found[i][1] = r.found_keys[i]
    /\ \A k \in Range(r.keys) :
          k \in Range(r.found_keys)
          <=> \A i \in 1..Len(r.answers) :
                 r.answers[i].key = k => r.answers[i].value # None

\* C7 as claimed: for every input key list, found_keys and not_found_keys are
\* disjoint, their union is the set of keys asked for, found and found_keys
\* agree index by index, and a key is in found_keys iff its get returned Some.
GetManyPartitionAnyList ==
    \A c \in Clients :
        (ret[c].op = "get_many" /\ ret[c].status = "Ok") => Partitioned(ret[c])

\* C7 as amended: the same, for every input key list without a repeated key.
GetManyPartition ==
    \A c \in Clients :
        (/\ ret[c].op = "get_many" /\ ret[c].status = "Ok"
         /\ NoDuplicates(ret[c].keys))
        => Partitioned(ret[c])

GetManyPartitionWitness ==
    \E c \in Clients :
        /\ ret[c].op = "get_many" /\ ret[c].status = "Ok"
        /\ NoDuplicates(ret[c].keys)
        /\ ret[c].found_keys # <<>>
        /\ ret[c].not_found_keys # <<>>

\* C8: idempotent update. When update(E) has returned Ok and is run again, and
\* no entry of a key of E expired in between, the tree maps the same keys to
\* the same values after the second run as after the first.
NoExpiryBetween(r) ==
    \A i \in 1..Len(r.entries) :
        LiveAt(prev_update[1].post[r.entries[i][1]].created, r.at)

IdempotentUpdate ==
    \A c \in Clients :
        LET r == ret[c] IN
        (/\ r.op = "update"
         /\ prev_update # None
         /\ NoExpiryBetween(r))
        => Values(cache_db) = Values(prev_update[1].post)

IdempotentUpdateWitness ==
    \E c \in Clients :
        LET r == ret[c] IN
        /\ r.op = "update" /\ r.status = "Ok"
        /\ prev_update # None
        /\ NoExpiryBetween(r)
        /\ Len(r.entries) = 2
        /\ r.entries[1][1] = r.entries[2][1]
        /\ r.entries[1][2] # r.entries[2][2]
        /\ r.at > prev_update[1].post[r.entries[1][1]].created

\* sub picks elements of s without changing their order.
KeepsOrderOf(sub, s) ==
    \E f \in [1..Len(sub) -> 1..Len(s)] :
        /\ \A i, j \in 1..Len(sub) : i < j => f[i] < f[j]
        /\ \A i \in 1..Len(sub) : sub[i] = s[f[i]]

\* The key at a position of the input of a batch call.
InputKey(c, i) ==
    IF call[c].op = "get_many" THEN call[c].keys[i] ELSE call[c].entries[i][1]

\* C23: get_many and update work through their input strictly one element
\* after the other, in input order. While the call runs, its position never
\* goes back or skips an element, only the element at the position touches
\* the tree, and a get_many has the answers of exactly the elements before
\* the position; so found_keys and not_found_keys of the result each pick
\* keys of the input without changing their order.
SequentialBatch ==
    [][/\ \A c \in Clients :
          (/\ call[c].op \in {"get_many", "update"}
           /\ pc[c] \in {"get_internal", "get_remove", "insert_internal"})
          => /\ pc'[c] # "idle" => idx'[c] \in {idx[c], idx[c] + 1}
             /\ idx'[c] = idx[c] + 1 => pc'[c] = "get_internal"
             /\ \A k \in Keys :
                    k # InputKey(c, idx[c]) => DbGet(cache_db', k) = DbGet(cache_db, k)
             /\ call[c].op = "get_many"
                    => /\ Len(acc[c]) = idx[c] - 1
                       /\ \A i \in 1..Len(acc[c]) : acc[c][i].key = call[c].keys[i]
             /\ (call[c].op = "get_many" /\ pc'[c] = "fold")
                    => /\ idx[c] = Len(call[c].keys)
                       /\ Len(acc'[c]) = Len(call[c].keys)
             /\ (call[c].op = "update" /\ pc'[c] = "updated")
                    => idx[c] = Len(call[c].entries)
       /\ \A c \in Clients :
          (ret'[c].op = "get_many" /\ ret'[c].status = "Ok")
          => /\ KeepsOrderOf(ret'[c].found_keys, ret'[c].keys)
             /\ KeepsOrderOf(ret'[c].not_found_keys, ret'[c].keys)
             /\ Len(ret'[c].found_keys) + Len(ret'[c].not_found_keys)
                    = Len(ret'[c].keys)]_vars

\* A get_many of the keys in the reverse of their byte order found both.
SequentialBatchWitness ==
    \E c \in Clients :
        /\ ret[c].op = "get_many" /\ ret[c].status = "Ok"
        /\ ret[c].keys = <<"dog", "cat">>
        /\ ret[c].found_keys = <<"dog", "cat">>

\* C25: get_all only reads. No step of a get_all changes the tree, expired
\* entries included; the result it returns has an empty not_found_keys, and
\* found_keys holds the keys of found, index by index.
GetAllReadOnly ==
    [][\A c \in Clients :
          call[c].op = "get_all"
          => /\ cache_db' = cache_db
             /\ (pc'[c] = "idle" /\ ret'[c].status = "Ok")
                    => /\ ret'[c].not_found_keys = <<>>
                       /\ Len(ret'[c].found_keys) = Len(ret'[c].found)
                       /\ \A i \in 1..Len(ret'[c].found) :
                              ret'[c].found_keys[i] = ret'[c].found[i][1]]_vars

\* A get_all returned an entry that had expired, and the entry is still there.
GetAllReadOnlyWitness ==
    \E c \in Clients :
        /\ ret[c].op = "get_all" /\ ret[c].status = "Ok"
        /\ ret[c].found # <<>>
        /\ \A i \in 1..Len(ret[c].found) :
               /\ ret[c].found[i][1] \in DOMAIN cache_db
               /\ ~LiveAt(cache_db[ret[c].found[i][1]].created, ret[c].at)

\* The tree without the entry of a key, every other entry as it was.
Without(db, key) == [k \in DOMAIN db \ {key} |-> db[k]]

\* What C19 says of the read of a get: for an absent key and for a live entry
\* the get returns at once, None or Some(value), and the tree is as it was;
\* for an expired entry the get goes on to the removal.
GetReads(c) ==
    LET k == call[c].key IN
    (/\ call[c].op = "get"
     /\ pc[c] = "get_internal" /\ pc'[c] # "get_internal"
     /\ ret'[c].status # "Err")
    => /\ cache_db' = cache_db
       /\ IF k \notin DOMAIN cache_db
          THEN /\ pc'[c] = "idle" /\ ret'[c].status = "Ok"
               /\ ret'[c].value = None
          ELSE IF LiveAt(cache_db[k].created, now)
          THEN /\ pc'[c] = "idle" /\ ret'[c].status = "Ok"
               /\ ret'[c].value = Some(cache_db[k].value)
          ELSE pc'[c] = "get_remove"

\* C19 as claimed: get semantics. get(k) returns None when k is absent; when
\* k is present and expired it removes the entry and returns None; when k is
\* present and not expired it returns Some(value) and leaves the tree as it
\* was.
GetSemanticsClaimed ==
    [][\A c \in Clients :
          /\ GetReads(c)
          /\ (call[c].op = "get" /\ pc[c] = "get_remove" /\ pc'[c] # "get_remove")
             => /\ ret'[c].status = "Ok" /\ ret'[c].value = None
                /\ cache_db' = Without(cache_db, call[c].key)]_vars

\* C19 as amended: the same, but an expired entry is removed unless the
\* removal itself fails; then the entry stays, and None is returned all the
\* same.
GetSemantics ==
    [][\A c \in Clients :
          /\ GetReads(c)
          /\ (call[c].op = "get" /\ pc[c] = "get_remove" /\ pc'[c] # "get_remove")
             => /\ ret'[c].status = "Ok" /\ ret'[c].value = None
                /\ \/ cache_db' = Without(cache_db, call[c].key)
                   \/ cache_db' = cache_db /\ call[c].key \notin evicted']_vars

GetSemanticsWitness ==
    \E c \in Clients :
        /\ ret[c].op = "get" /\ ret[c].status = "Ok"
        /\ ret[c].value = None
        /\ ret[c].key \in DOMAIN cache_db
        /\ ~LiveAt(cache_db[ret[c].key].created, ret[c].at)

\* C26: a failing removal of an expired entry is swallowed. The get that
\* found the entry expired returns None, never an error, whether its removal
\* deleted the entry or failed; after a failed removal the entry is still in
\* the tree, still expired, and the next get of the key goes to the removal
\* again.
RemovalFailureSwallowed ==
    [][/\ \A c \in Clients :
             (call[c].op = "get" /\ pc[c] = "get_remove" /\ pc'[c] = "idle")
             => /\ ret'[c].status = "Ok"
                /\ ret'[c].value = None
                /\ \/ cache_db' = Without(cache_db, call[c].key)
                   \/ cache_db' = cache_db /\ call[c].key \in stale'
       /\ \A c \in Clients :
             (/\ call[c].op = "get" /\ call[c].key \in stale
              /\ pc[c] = "get_internal" /\ pc'[c] # "get_internal"
              /\ ret'[c].status # "Err")
             => pc'[c] = "get_remove"
       /\ \A k \in stale' :
             /\ k \in DOMAIN cache_db'
             /\ ~LiveAt(cache_db'[k].created, now')]_vars

\* A get is at the removal of an entry that an earlier get failed to remove.
RemovalFailureSwallowedWitness ==
    \E c \in Clients :
        /\ call[c].op = "get" /\ pc[c] = "get_remove"
        /\ call[c].key \in stale

\* What C29 says of a live entry: no step of an insert, update, get,
\* get_many or get_all changes or removes it.
LiveEntriesKept ==
    \A k \in DOMAIN cache_db :
        (/\ LiveAt(cache_db[k].created, now)
         /\ \A c \in Clients : call[c].op # "remove")
        => /\ k \in DOMAIN cache_db'
           /\ cache_db'[k] = cache_db[k]

\* C29 as claimed: entries are never mutated in place. While an entry is live
\* no insert, update, get, get_many or get_all changes its value or its
\* created timestamp, and the entry of a key changes only by being removed
\* and inserted anew: no step turns an entry into another one.
EntriesNotMutatedClaimed ==
    [][/\ LiveEntriesKept
       /\ \A k \in DOMAIN cache_db \cap DOMAIN cache_db' :
             cache_db'[k] = cache_db[k]]_vars

\* C29 as amended: while an entry is live no insert, update, get, get_many or
\* get_all changes its value or its created timestamp; the entry of a key
\* changes only by being removed and inserted anew, or by an insert that
\* writes over an expired entry whose removal had failed.
EntriesNotMutated ==
    [][/\ LiveEntriesKept
       /\ \A k \in DOMAIN cache_db \cap DOMAIN cache_db' :
             cache_db'[k] # cache_db[k]
             => /\ k \in stale
                /\ ~LiveAt(cache_db[k].created, now)
                /\ \E c \in Clients :
                       call[c].op \in {"insert", "update"} /\ pc[c] = "insert_internal"]_vars

\* An insert of another value returned Ok on a live entry, which kept its
\* value and its older created timestamp.
EntriesNotMutatedWitness ==
    \E c \in Clients :
        /\ ret[c].op = "insert" /\ ret[c].status = "Ok"
        /\ ret[c].key \in DOMAIN cache_db
        /\ cache_db[ret[c].key].value # ret[c].val
        /\ cache_db[ret[c].key].created < ret[c].at
        /\ LiveAt(cache_db[ret[c].key].created, ret[c].at)

RemoveUnconditional ==
    [][\A c \in Clients :
          (pc[c] = "remove_internal" /\ pc'[c] = "idle")
          => IF ret'[c].status = "Ok"
             THEN /\ cache_db' = Without(cache_db, call[c].key)
                  /\ call[c].key \notin DOMAIN cache_db'
             ELSE cache_db' = cache_db]_vars

RemoveUnconditionalWitness ==
    \E c \in Clients :
        /\ ret[c].op = "remove" /\ ret[c].status = "Ok"
        /\ ret[c].key \in evicted
        /\ cache_db # << >>

(***************************************************************************)
(* Properties of DictionaryService, checked under SpecService              *)
(***************************************************************************)

\* C2: save-then-suggest round trip. When exactly one save_translation(doc,
\* pair, s, t) has succeeded on a project store that started empty, a
\* get_project_suggestions(doc, pair, s) that returns Ok returns exactly one
\* suggestion: match_type Exact, original_text s, translated_text t.
SaveThenSuggest ==
    \A t \in Tasks :
        (/\ done[t].op = "get_project_suggestions"
         /\ done[t].status = "Ok"
         /\ Len(done[t].history) = 1)
        => done[t].suggestions =
               <<DictionarySuggestion(done[t].text, done[t].history[1], "Exact")>>

SaveThenSuggestWitness ==
    \E t \in Tasks :
        /\ done[t].op = "get_project_suggestions"
        /\ done[t].status = "Ok"
        /\ Len(done[t].history) = 1
        /\ Len(done[t].suggestions) = 1

\* C3 as claimed: save_translation appends. After the successful saves of
\* t1..tn for one (document, language pair, original text) the store holds
\* the list [t1, .., tn] in call order, and get_project_suggestions returns
\* the n suggestions in that order.
SaveAppends ==
    \A t \in Tasks :
        done[t].status = "Ok" =>
            /\ done[t].op = "save_translation"
                  => done[t].stored = done[t].history
            /\ done[t].op = "get_project_suggestions"
                  => done[t].suggestions = Suggest(done[t].text, done[t].history)

\* C9 as claimed: no operation tries to open a store address while another
\* handle to that address is open, and no service call fails with a
\* concurrent-open conflict.
NoSimultaneousOpen ==
    /\ ~open_conflict
    /\ \A t \in Tasks : done[t].cause # "open_conflict"

TranslatedTexts(suggestions) ==
    [i \in 1..Len(suggestions) |-> suggestions[i].translated_text]

ProjectA == <<"a.txt">>
ProjectB == <<"docs", "b.txt">>

\* C11 as claimed: global dedup ordering. With project A storing one list and
\* project B another for a text, and no save running any more,
\* get_global_suggestions returns the translated texts of A's list followed
\* by B's, repeats left out, whatever the order the directory is listed in
\* and the order the lookups complete in (every store listed having opened).
GlobalDedupOrdering ==
    \A t \in Tasks :
        (/\ done[t].op = "get_global_suggestions"
         /\ done[t].status = "Ok"
         /\ done[t].skipped = {}
         /\ done[t].settled)
        => TranslatedTexts(done[t].suggestions) =
               TranslatedTexts(
                   Dedup(Suggest(done[t].text,
                                 StoredByProject(disk, done[t].pair, done[t].text)[ProjectA]
                                     \o StoredByProject(disk, done[t].pair,
                                                        done[t].text)[ProjectB]), {}))

\* C13 as claimed: global suggestions cover every project store. When
\* save_translation(doc, pair, s, t) returned Ok before get_global_suggestions(
\* pair, s) started, and no save ran after, the suggestions returned include
\* one with translated text t (every store listed having opened).
GlobalCoversProjects ==
    \A t \in Tasks :
        (/\ done[t].op = "get_global_suggestions"
         /\ done[t].status = "Ok"
         /\ done[t].skipped = {}
         /\ done[t].settled)
        => \A doc \in Docs :
              Range(saved[<<doc, done[t].pair, done[t].text>>])
                  \subseteq Range(TranslatedTexts(done[t].suggestions))

\* C15 as claimed: service-wide guard discipline. Every store handle is
\* open under a guard of the call that holds it (the exclusive one for
\* save_translation, the shared one for a suggestion call); hence while a
\* save_translation holds the exclusive guard no other call has a store
\* open, and no two calls hold the exclusive guard.
GuardDiscipline ==
    /\ \A h \in handles : \E g \in guard_held : g.task = h.task
    /\ \A g \in guard_held :
          g.mode = "write" =>
              /\ \A h \in handles : h.task = g.task
              /\ \A g2 \in guard_held : g2.task = g.task

\* C17: save_translation failure handling. Whenever save_translation returns,
\* with Ok or with the error of its open, read or write, it holds and awaits
\* no guard any more; and the list a project store holds for a text changes
\* only in the step in which a save_translation returns Ok: a save that
\* fails persists nothing.
SaveFailureHandling ==
    [][/\ \A t \in Tasks :
             (job[t].op = "save_translation" /\ job'[t].pc = "idle")
             => /\ done'[t].status \in {"Ok", "Err"}
                /\ \A g \in guard_held' \cup Range(guard_queue') : g.task # t
       /\ (\E doc \in Docs, pair \in Pairs, text \in Texts :
              Stored(disk', project_dictionary(doc, pair), text)
                  # Stored(disk, project_dictionary(doc, pair), text))
          => \E t \in Tasks :
                /\ job[t].op = "save_translation"
                /\ job'[t].pc = "idle"
                /\ done'[t].status = "Ok"]_vars

SaveFailureHandlingWitness ==
    \E t \in Tasks :
        /\ done[t].op = "save_translation"
        /\ done[t].status = "Err"
        /\ \E g \in guard_held : g.task # t /\ g.mode = "write"

\* C18: global aggregation error policy. A store that fails to open is
\* skipped: the call goes on and, when it returns Ok, its result is built
\* from the lookups of all the other stores listed; an error it returns comes
\* from a lookup, never from an open. When the language-pair directory
\* cannot be listed the call returns an error.
GlobalErrorPolicy ==
    \A t \in Tasks :
        /\ job[t].skipped # {} => job[t].pc = "lookup"
        /\ job[t].pc = "lookup" /\ job[t].op = "get_global_suggestions" =>
              Len(job[t].results) + Cardinality(job[t].inflight)
                  + Len(job[t].todo) + Cardinality(job[t].skipped) = job[t].dirs
        /\ done[t].op = "get_global_suggestions" =>
              /\ ~done[t].listed => done[t].status = "Err" /\ done[t].cause = "read_dir"
              /\ (done[t].listed /\ done[t].status = "Err") => done[t].cause = "io"
              /\ done[t].status = "Ok" => done[t].listed

GlobalErrorPolicyWitness ==
    \E t \in Tasks :
        /\ done[t].op = "get_global_suggestions"
        /\ done[t].status = "Ok"
        /\ done[t].skipped # {}

\* C33 as claimed: suggestion queries are read-only on disk. No step of a
\* get_global_suggestions creates a store at an address where there was none
\* or changes what a store holds: the stores on disk and their contents are
\* the same after the call as before it.
GlobalReadOnly ==
    [][\A t \in Tasks :
          (job[t].op = "get_global_suggestions" /\ job'[t] # job[t])
          => disk' = disk]_vars

(***************************************************************************)
(* Properties of concurrent inserts, checked under SpecRace                *)
(***************************************************************************)
\* C16 as claimed: concurrent insert-if-absent. When tasks insert different
\* values for an absent key through one handle at the same time, one value
\* is written, by the task that first takes the write lock, and the entry
\* holds this first written value ever after, in every interleaving.
FirstWriterWins ==
    \A k \in Keys :
        first_insert[k] # None =>
            /\ k \in DOMAIN cache_db
            /\ cache_db[k].value = first_insert[k][1].value

(***************************************************************************)
(* Properties of the merge, checked under SpecDedup                        *)
(***************************************************************************)
\* The positions of the concatenation whose translated text did not occur
\* before them, and the k-th of these.
FirstOccurrences(all) ==
    {i \in 1..Len(all) :
        \A j \in 1..(i - 1) : all[j].translated_text # all[i].translated_text}

NthOf(S, k) == CHOOSE i \in S : Cardinality({j \in S : j < i}) = k - 1

\* C12: global dedup, general form. The output is the concatenation of the
\* per-project lists in arrival order with only the first occurrence of every
\* translated text kept: no two outputs share a translated text, every
\* translated text of the lists appears, and the survivors keep their order.
DedupFirstOccurrence ==
    result # None =>
        LET out == result[1]
            all == Flatten(arg)
            first == FirstOccurrences(all)
        IN  /\ \A i \in 1..Len(out), j \in 1..Len(out) :
                  i # j => out[i].translated_text # out[j].translated_text
            /\ Range(TranslatedTexts(out)) = Range(TranslatedTexts(all))
            /\ Len(out) = Cardinality(first)
            /\ \A k \in 1..Len(out) : out[k] = all[NthOf(first, k)]

DedupFirstOccurrenceWitness ==
    /\ result # None
    /\ Len(arg) = 2
    /\ TranslatedTexts(arg[1]) = <<"foo", "bar">>
    /\ TranslatedTexts(arg[2]) = <<"bar", "baz">>
    /\ TranslatedTexts(result[1]) = <<"foo", "bar", "baz">>

(***************************************************************************)
(* Properties of the addresses, checked under SpecAddress                  *)
(***************************************************************************)
\* C14 as claimed: address injectivity. Two distinct inputs (language pair,
\* project key) have different store addresses, for every project key a
\* document path can give, from the root or not; so (A, B) and (B, A) have
\* different addresses for one document.
AddressInjective ==
    result # None => (arg[1] # arg[2] => result[1][1] # result[1][2])

\* C22 as claimed: project addresses live under the language-pair address.
\* For every document path and language pair, the address of the project
\* store is the language pair's directory followed by the project key and
\* "dictionary", a strict descendant of language_pair_db_key(pair).
ProjectUnderLanguagePair ==
    result # None =>
        \A i \in 1..2 :
            LET lang_dir == language_pair_db_key(arg[i].language_pair)
            IN  /\ result[1][i] = lang_dir \o <<arg[i].project_key, "dictionary">>
                /\ IsPrefix(lang_dir, result[1][i])
                /\ Len(result[1][i]) > Len(lang_dir)

(***************************************************************************)
(* Properties of the suggestion list, checked under SpecSuggest.           *)
(***************************************************************************)
\* C21: the suggestions for a text map its stored list one to one and in
\* stored order: as many suggestions as stored translations, the i-th one
\* carrying the i-th translation, the queried text and the match type Exact;
\* a text with no entry gives the empty list.
SuggestOneToOne ==
    result # None =>
        LET suggestions == result[1]
        IN  IF arg.value = None
            THEN suggestions = <<>>
            ELSE /\ Len(suggestions) = Len(arg.value[1])
                 /\ \A i \in 1..Len(suggestions) :
                        /\ suggestions[i].translated_text = arg.value[1][i]
                        /\ suggestions[i].match_type = "Exact"
                        /\ suggestions[i].original_text = arg.original_text

\* A list of three stored translations, not all the same, was mapped.
SuggestOneToOneWitness ==
    /\ result # None
    /\ arg.value # None
    /\ Len(arg.value[1]) = MaxStored
    /\ arg.value[1][1] # arg.value[1][MaxStored]
    /\ Len(result[1]) = MaxStored

(***************************************************************************)
(* Properties of the fan-out, checked under SpecFanOut.                    *)
(***************************************************************************)
\* C24: a get_global_suggestions never has more than 10 lookups in flight,
\* and so never holds more than 10 store handles of its own at a time.
FanOutBound ==
    \A t \in Tasks :
        job[t].op = "get_global_suggestions"
        => /\ Cardinality(job[t].inflight) <= FanOut
           /\ Cardinality({h \in handles : h.task = t}) <= FanOut

\* Ten lookups are in flight, ten stores open, and a directory still waits.
FanOutBoundWitness ==
    \E t \in Tasks :
        /\ job[t].op = "get_global_suggestions"
        /\ job[t].todo # <<>>
        /\ Cardinality(job[t].inflight) = FanOut
        /\ Cardinality({h \in handles : h.task = t}) = FanOut

LockExclusion ==
    \A c1, c2 \in Racers :
        (c1 # c2 /\ pc[c1] = "access" /\ pc[c2] = "access")
        => /\ call[c1].op \in {"get_internal", "get_all"}
           /\ call[c2].op \in {"get_internal", "get_all"}

\* A get_internal and the scan of a get_all work on the tree together, while
\* the tree holds an entry a write put there.
LockExclusionWitness ==
    \E c1, c2 \in Racers :
        /\ pc[c1] = "access" /\ call[c1].op = "get_internal"
        /\ pc[c2] = "access" /\ call[c2].op = "get_all"
        /\ cache_db # << >>

(***************************************************************************)
(* Properties of the service guard, under SpecGuard.                       *)
(***************************************************************************)
\* C31 as claimed: deadlock freedom of the service guard. With requests
\* served in the order they were made, every get_project_suggestions call
\* eventually returns, whatever save_translation calls run beside it.
ProjectSuggestionsReturn ==
    \A t \in Tasks :
        (job[t].op = "get_project_suggestions")
            ~> (job[t].op # "get_project_suggestions")

(***************************************************************************)
(* Properties of eviction between two tasks, under SpecEvict.              *)
(***************************************************************************)
\* C32 as claimed: expiry eviction never deletes a live entry. With two
\* tasks on one handle under After(d), the removal a get makes after it saw
\* an expired entry never takes away an entry that is live: one that another
\* task inserted in the meantime stays, and a get within d returns its value.
EvictionSparesLive ==
    [][\A c \in Racers :
          (/\ pc[c] = "get_remove"
           /\ CurKey(c) \in DOMAIN cache_db
           /\ CurKey(c) \notin DOMAIN cache_db')
          => ~LiveAt(cache_db[CurKey(c)].created, now)]_vars

(***************************************************************************)
(* Properties of an insert over an expired entry, under SpecReplace.       *)
(***************************************************************************)
\* C34: insert after expiry replaces. Under After(d), an insert(k, v2) that
\* finds an expired entry for k does not take it for an existing value: it
\* goes to the removal of the stale entry and then writes, and when it
\* returns Ok the entry of k is v2 with created = now; a get(k) that reads
\* an entry created at this very time returns its value.
InsertAfterExpiryReplaces ==
    [][\A c \in Clients :
          LET k == call[c].key IN
          /\ (/\ call[c].op = "insert"
              /\ pc[c] = "get_internal" /\ pc'[c] # "get_internal"
              /\ k \in DOMAIN cache_db
              /\ ~LiveAt(cache_db[k].created, now)
              /\ ret'[c].status # "Err")
             => pc'[c] = "get_remove"
          /\ (call[c].op = "insert" /\ pc[c] = "get_remove" /\ pc'[c] # "get_remove")
             => pc'[c] = "insert_internal"
          /\ (/\ call[c].op = "insert"
              /\ pc[c] = "insert_internal" /\ pc'[c] = "idle"
              /\ ret'[c].status = "Ok")
             => /\ k \in DOMAIN cache_db'
                /\ cache_db'[k] = [value |-> call[c].val, created |-> now]
          /\ (/\ call[c].op = "get"
              /\ pc[c] = "get_internal" /\ pc'[c] = "idle"
              /\ k \in DOMAIN cache_db
              /\ cache_db[k].created = now
              /\ ret'[c].status = "Ok")
             => ret'[c].value = Some(cache_db[k].value)]_vars

\* The key that held the expired entry was inserted with another value, and
\* a get at the time of that write returned the new value.
InsertAfterExpiryReplacesWitness ==
    \E c \in Clients :
        /\ ret[c].op = "get" /\ ret[c].status = "Ok"
        /\ ret[c].key = KeySeq[1]
        /\ ret[c].value # None
        /\ ret[c].value[1] # StaleValue
        /\ cache_db[KeySeq[1]] = [value |-> ret[c].value[1], created |-> ret[c].at]

(***************************************************************************)
(* Properties of the dictionary stores over time, under SpecClock.         *)
(***************************************************************************)
\* C35: dictionary stores never expire. The stores of the dictionary layer
\* are opened with the policy Never, and no step of a save or of a
\* suggestion call, and no advance of the clock, removes a store or takes a
\* source-text key out of one.
DictionaryNeverExpires ==
    [][/\ expires_after = Never
       /\ \A path \in DOMAIN disk :
             /\ path \in DOMAIN disk'
             /\ DOMAIN disk[path] \subseteq DOMAIN disk'[path]]_vars

\* A translation saved at time 0 is suggested by a project query that
\* returned when the clock had gone as far as it goes.
DictionaryNeverExpiresWitness ==
    \E t \in Solo :
        /\ done[t].op = "get_project_suggestions"
        /\ done[t].status = "Ok"
        /\ done[t].at = MaxTime
        /\ done[t].suggestions # <<>>
        /\ disk[project_dictionary(done[t].doc, done[t].pair)][done[t].text].created = 0

(***************************************************************************)
(* Properties of TranslationWorkspace::validated, under SpecValidated.     *)
(***************************************************************************)
\* C37: validated fails with the 'segment is not checked' error exactly when
\* some segment has no confirmed translation (confirmed is None), and returns
\* the workspace unchanged when every segment is confirmed.
ValidatedRejectsUnchecked ==
    result # None =>
        LET unchecked == \E i \in 1..Len(arg.segments) : arg.segments[i].confirmed = None
        IN  /\ (result[1][1] = "Err" /\ result[1][2] = "segment is not checked") <=> unchecked
            /\ ~unchecked => result[1] = Ok(arg)

(***************************************************************************)
(* Properties of the suggestion panel, under SpecPanel.                    *)
(***************************************************************************)
\* C36: suggestion panel consistency. In a workspace, after any sequence of
\* messages, every non-empty suggestion list in the panel was received for
\* the segment index that is focused now; a ReceivedTranslations whose index
\* is not the focused one changes nothing of the workspace view; and a step
\* that changes the focused index leaves all three lists None.
PanelConsistency ==
    /\ [](\A kind \in SuggestionKind :
            (/\ app_mode.suggestions[kind] # None
             /\ app_mode.suggestions[kind][1] # <<>>)
            => shown.for[kind] = app_mode.focused_index)
    /\ [][/\ \A i \in 1..Len(commands) :
               (/\ commands[i].msg = "ReceivedTranslations"
                /\ commands' = Delivered(i)
                /\ Some(commands[i].key) # app_mode.focused_index)
               => app_mode' = app_mode
          /\ app_mode'.focused_index # app_mode.focused_index
               => app_mode'.suggestions = SuggestionPanelDefault]_vars

\* The focus has moved to the second segment, a list that came for another
\* index has been discarded, and the project list shown came for the second
\* segment, while the global list is still to be loaded.
PanelConsistencyWitness ==
    /\ app_mode.mode = "InWorkspace"
    /\ app_mode.focused_index = Some(SegmentKeys(2)[2])
    /\ shown.discarded
    /\ app_mode.suggestions["Project"] = Some(<<"kot">>)
    /\ shown.for["Project"] = app_mode.focused_index
    /\ app_mode.suggestions["Global"] = None

====
